---- MODULE Spec2Model ----
(***************************************************************************)
(* Order lifecycle of Nimbus/ordex: OrderService over the PostgreSQL order *)
(* repository, the Redis cache repository and the Kafka status event.      *)
(* Every awaited call of the service is one step of a request; requests of *)
(* different workers interleave at these steps.                            *)
(***************************************************************************)
EXTENDS Integers, Sequences, FiniteSets, TLC

\* ---------------------------------------------------------------- bounds
MaxOps == 4          \* requests started in one behaviour

Procs == {"r1", "r2"}            \* concurrently served requests
OrderIds == {1}                  \* order ids the store hands out
UserIds == {5}

\* ------------------------------------------------------- domain constants
CACHE_PREFIX == "order"

\* datetime column: NoTime stands for NULL / None, a positive number is a time
NoTime == 0

OrderStatus == {"PENDING", "CONFIRMED", "CANCELLED"}

\* value of an enum member, as json.dumps writes a str-mixin enum
OrderStatusValue(s) ==
    CASE s = "PENDING" -> "pending"
      [] s = "CONFIRMED" -> "confirmed"
      [] s = "CANCELLED" -> "cancelled"

\* OrderStatus(value): the member with that value
OrderStatusOf(v) == CHOOSE s \in OrderStatus : OrderStatusValue(s) = v

\* ------------------------------------------------------------ the store
\* a row of table orders together with its order_products rows
\* (lines: the product ids of the line items); present = FALSE: no such row
NoRow ==
    [present |-> FALSE, user_id |-> 0, status |-> "PENDING", total_price |-> 0,
     deleted_at |-> NoTime, lines |-> {}]

\* an INSERT that leaves the line items out
NewRow_no_lines(user_id, total_price, lines) ==
    [present |-> TRUE, user_id |-> user_id, status |-> "PENDING",
     total_price |-> total_price, deleted_at |-> NoTime, lines |-> {}]

\* Order(**create_dict): status and deleted_at take the column defaults
NewRow(user_id, total_price, lines) ==
    [present |-> TRUE, user_id |-> user_id, status |-> "PENDING",
     total_price |-> total_price, deleted_at |-> NoTime, lines |-> lines]

\* an ORM instance: the row as the session last loaded it, with its key;
\* present = FALSE stands for None
NoModel ==
    [present |-> FALSE, id |-> 0, user_id |-> 0, status |-> "PENDING",
     total_price |-> 0, deleted_at |-> NoTime, lines |-> {}]

ModelOf(id, row) ==
    [present |-> row.present, id |-> id, user_id |-> row.user_id,
     status |-> row.status, total_price |-> row.total_price,
     deleted_at |-> row.deleted_at, lines |-> row.lines]

\* a SELECT by id alone, soft-deleted rows included
OrderRepository_get_by_id_unfiltered(st, order_id) ==
    IF order_id \in DOMAIN st /\ st[order_id].present
    THEN ModelOf(order_id, st[order_id])
    ELSE NoModel

\* SELECT ... WHERE id = :id AND deleted_at IS NULL
OrderRepository_get_by_id(st, order_id) ==
    IF order_id \in DOMAIN st /\ st[order_id].present
       /\ st[order_id].deleted_at = NoTime
    THEN ModelOf(order_id, st[order_id])
    ELSE NoModel

\* session.refresh(order): reload by primary key, no deleted_at filter
SessionRefresh(st, order_id) ==
    IF order_id \in DOMAIN st /\ st[order_id].present
    THEN ModelOf(order_id, st[order_id])
    ELSE NoModel

\* ------------------------------------------------------------ the schema
\* OrderSchema.model_validate(order_model)
OrderSchemaOf(m) ==
    [id |-> m.id, user_id |-> m.user_id, status |-> m.status,
     total_price |-> m.total_price, deleted_at |-> m.deleted_at,
     order_products |-> m.lines]

NoSchema ==
    [id |-> 0, user_id |-> 0, status |-> "PENDING", total_price |-> 0,
     deleted_at |-> NoTime, order_products |-> {}]

\* json.dumps cannot serialize a datetime: only a schema with deleted_at None
\* has a JSON text
JsonSerializable(schema) == schema.deleted_at = NoTime

\* json.dumps(order_schema.model_dump()): the enum is written by its value,
\* None as null
JsonDumps(schema) ==
    [id |-> schema.id, user_id |-> schema.user_id,
     status |-> OrderStatusValue(schema.status),
     total_price |-> schema.total_price, deleted_at |-> "null",
     order_products |-> schema.order_products]

\* OrderSchema(**json.loads(data))
JsonLoads(doc) ==
    [id |-> doc.id, user_id |-> doc.user_id,
     status |-> OrderStatusOf(doc.status),
     total_price |-> doc.total_price, deleted_at |-> NoTime,
     order_products |-> doc.order_products]

\* ------------------------------------------------------------- the cache
\* f"{prefix}:{identifier}"
generate_key(prefix, identifier) == <<prefix, identifier>>

CacheKeys == {generate_key(CACHE_PREFIX, i) : i \in OrderIds}

\* CacheRepository.get(prefix, identifier): <<>> is None, <<doc>> the entry
CacheRepository_get(c, prefix, identifier) ==
    IF generate_key(prefix, identifier) \in DOMAIN c
    THEN c[generate_key(prefix, identifier)]
    ELSE <<>>

\* CacheRepository.set(prefix, identifier, data)
CacheRepository_set(c, prefix, identifier, data) ==
    [c EXCEPT ![generate_key(prefix, identifier)] = <<data>>]

\* CacheRepository.delete(prefix, identifier), called with the positional
\* arguments args: a call that does not bind both parameters raises
\* TypeError before anything is sent to Redis
CacheRepository_delete(c, args) ==
    IF Len(args) = 2
    THEN [raised |-> FALSE,
          cache |-> [k \in DOMAIN c |->
                       IF k = generate_key(args[1], args[2]) THEN <<>> ELSE c[k]]]
    ELSE [raised |-> TRUE, cache |-> c]

\* ------------------------------------------------- identity: users, roles
UserRowIds == {5, 6}                  \* ids of table users
Emails == {"a@x.io", "A@x.io", "b@x.io"}

\* func.lower(email)
Lower(email) == IF email = "A@x.io" THEN "a@x.io" ELSE email

\* a password, one character class per position: l lowercase, U uppercase,
\* d digit, s one of @$!%*?&
StrongPassword ==
    <<"U", "l", "l", "d", "l", "l", "s", "U", "l", "l", "l", "d", "l", "l", "d">>
OtherPassword ==
    <<"l", "l", "l", "d", "l", "l", "s", "U", "l", "l", "l", "d", "l", "l", "d">>
WeakPassword == <<"l", "l", "l", "l", "l", "l", "l", "l">>
Passwords == {StrongPassword, OtherPassword, WeakPassword}

\* further characters: w a space, n a newline, o a character that is
\* neither a letter, a digit, one of @$!%*?& nor whitespace
Characters == {"l", "U", "d", "s", "o", "w", "n"}
Whitespace(c) == c \in {"w", "n"}

\* (?=.*c): the class c occurs, with no newline before it ("." does not match
\* a newline)
Lookahead(password, c) ==
    \E i \in 1..Len(password) :
       /\ password[i] = c
       /\ \A j \in 1..(i - 1) : password[j] # "n"

\* [^\s]{12,}$ from the start of the string: twelve or more characters that
\* are no whitespace, up to the end of the string or up to the newline the
\* string ends with ("$" matches before a trailing newline)
PASSWORD_MIN_LENGTH == 12
BodyMatches(password) ==
    \E k \in PASSWORD_MIN_LENGTH..Len(password) :
       /\ \A i \in 1..k : ~Whitespace(password[i])
       /\ \/ k = Len(password)
          \/ k = Len(password) - 1 /\ password[Len(password)] = "n"

\* PasswordHelper.validate_password: complex_password_regex.match(password)
validate_password(password) ==
    /\ Lookahead(password, "l")
    /\ Lookahead(password, "U")
    /\ Lookahead(password, "d")
    /\ Lookahead(password, "s")
    /\ BodyMatches(password)

\* PasswordHash.hash with the current Argon2 parameters; a hash made with
\* older parameters verifies the same password and asks for a rehash
PasswordHelper_hash(password) == [scheme |-> "argon2", password |-> password]
OutdatedHash(password) == [scheme |-> "argon2-outdated", password |-> password]

\* PasswordHash.verify_and_update(plain_password, hashed_password)
PasswordHelper_verify_and_update(plain_password, hashed_password) ==
    LET verified == hashed_password.password = plain_password IN
    [verified |-> verified,
     updated_password_hash |->
        IF verified /\ hashed_password.scheme # "argon2"
        THEN <<PasswordHelper_hash(plain_password)>> ELSE <<>>]

\* a row of table users with its roles (role names); present = FALSE: no row
NoUser ==
    [present |-> FALSE, email |-> "", hashed_password |-> OutdatedHash(<<>>),
     is_active |-> FALSE, is_verified |-> FALSE, roles |-> {}]

\* column defaults of the User model
User_is_active_default == TRUE
User_is_verified_default == TRUE

\* what a request holds of a user: the ORM instance of the row (UserModel) or
\* the snapshot a token embeds (UserSchema); present = FALSE stands for None
NoIdentity ==
    [present |-> FALSE, id |-> 0, email |-> "", is_active |-> FALSE,
     is_verified |-> FALSE, roles |-> {}]

\* the ORM instance of a row
UserModelOf(id, row) ==
    [present |-> row.present, id |-> id, email |-> row.email,
     hashed_password |-> row.hashed_password, is_active |-> row.is_active,
     is_verified |-> row.is_verified, roles |-> row.roles]

NoUserModel == UserModelOf(0, NoUser)

\* UserSchema.model_validate(user_model)
UserSchemaOf(user_model) ==
    [present |-> user_model.present, id |-> user_model.id,
     email |-> user_model.email, is_active |-> user_model.is_active,
     is_verified |-> user_model.is_verified, roles |-> user_model.roles]

\* UserRepository.get_by_id: SELECT ... WHERE id = :id
UserRepository_get_by_id(us, user_id) ==
    IF user_id \in DOMAIN us /\ us[user_id].present
    THEN UserModelOf(user_id, us[user_id])
    ELSE NoUserModel

\* UserRepository.get_by_email: scalar_one_or_none raises when more than one
\* row matches
UserRepository_get_by_email(us, email) ==
    LET ids == {i \in DOMAIN us :
                  us[i].present /\ Lower(us[i].email) = Lower(email)} IN
    IF ids = {} THEN [raised |-> "none", user |-> NoUserModel]
    ELSE IF Cardinality(ids) > 1
    THEN [raised |-> "MultipleResultsFound", user |-> NoUserModel]
    ELSE LET i == CHOOSE i \in ids : TRUE IN
         [raised |-> "none", user |-> UserModelOf(i, us[i])]

\* --------------------------------------------------- identity: the tokens
Algorithms == {"HS256", "RS256", "ES256"}

\* key material: one shared secret, one key pair, and a key of somebody else
Keys == {"secret", "private", "public", "foreign_private", "foreign_public"}
IsPrivateKey(key) == key \in {"private", "foreign_private"}
PublicKeyOf(key) ==
    CASE key = "private" -> "public"
      [] key = "foreign_private" -> "foreign_public"
      [] OTHER -> key

NIMBUS_AUDIENCE == <<"nimbus:auth">>
Audiences == {<<>>, NIMBUS_AUDIENCE, <<"other:auth">>}
MaxTime == 3         \* the clock of the identity runs stops here
Lifetimes == {0, 2}

\* JWTStrategy(secret_key, public_key, algorithm, lifetime, audience) for a
\* symmetric and for two asymmetric configurations; __init__ keeps the
\* audience it is given (the default it sets for an empty one is overwritten
\* on the next line)
JWTStrategy(secret_key, public_key, algorithm, lifetime, audience) ==
    [secret_key |-> secret_key, public_key |-> public_key,
     algorithm |-> algorithm, lifetime |-> lifetime, audience |-> audience]

Configs ==
    {JWTStrategy(k[1], k[2], k[3], lifetime, audience) :
        k \in {<<"secret", "secret", "HS256">>,
               <<"private", "public", "RS256">>,
               <<"private", "public", "ES256">>},
        lifetime \in Lifetimes,
        audience \in {<<>>, NIMBUS_AUDIENCE}}

\* the payload's "user": absent, not a valid UserSchema, or a snapshot
NoUserClaim == [kind |-> "absent", user |-> NoIdentity]
BadUserClaim == [kind |-> "malformed", user |-> NoIdentity]
UserClaim(user_schema) == [kind |-> "user", user |-> user_schema]

\* a token: wellformed = FALSE is a string that is no JWT; otherwise the
\* header algorithm, the key the signature was made with, and the payload
\* (exp = NoTime: no exp claim)
NoToken == [present |-> FALSE, wellformed |-> FALSE, alg |-> "", signed_with |-> "",
            aud |-> <<>>, exp |-> NoTime, user |-> NoUserClaim]
Garbage == [NoToken EXCEPT !.present = TRUE]

\* jwt.encode(payload, key, algorithm)
encode_jwt(payload, secret_key, algorithm) ==
    [present |-> TRUE, wellformed |-> TRUE, alg |-> algorithm,
     signed_with |-> secret_key, aud |-> payload.aud, exp |-> payload.exp,
     user |-> payload.user]

\* JWTStrategy.write_token(user_model) at time now
write_token(cfg, user_schema, now) ==
    encode_jwt([aud |-> cfg.audience,
                exp |-> IF cfg.lifetime # 0 THEN now + cfg.lifetime ELSE NoTime,
                user |-> UserClaim(user_schema)],
               cfg.secret_key, cfg.algorithm)

\* the signature of the token verifies under this key: HMAC with the same
\* secret, or the public half of the private key that signed
SignatureVerifies(encoded_jwt, key) ==
    IF encoded_jwt.alg = "HS256"
    THEN encoded_jwt.signed_with = key
    ELSE /\ IsPrivateKey(encoded_jwt.signed_with)
         /\ PublicKeyOf(encoded_jwt.signed_with) = PublicKeyOf(key)

\* the aud check of jwt.decode with a list given as audience: a token with
\* no or an empty aud is refused, and so is one that shares no entry with it
AudienceMatches(aud, audience) ==
    /\ aud # <<>>
    /\ \E i \in 1..Len(audience), j \in 1..Len(aud) : audience[i] = aud[j]

\* results of a call that returns data or raises
NoData2 == [aud |-> <<>>, exp |-> NoTime, user |-> NoUserClaim]
Decoded(encoded_jwt) ==
    [raised |-> "none",
     data |-> [aud |-> encoded_jwt.aud, exp |-> encoded_jwt.exp,
               user |-> encoded_jwt.user]]
DecodeRaised(exception) == [raised |-> exception, data |-> NoData2]

\* decode_jwt(encoded_jwt, public_key, audience, algorithms) at time now:
\* jwt.decode checks the structure, the header algorithm, the signature, exp
\* and aud, and raises a PyJWTError for each.  RSAAlgorithm.verify calls
\* key.verify, which a private key does not have (AttributeError);
\* ECAlgorithm.verify takes the public half of a private key.
decode_jwt(encoded_jwt, public_key, audience, algorithms, now) ==
    IF ~encoded_jwt.wellformed THEN DecodeRaised("PyJWTError")
    ELSE IF encoded_jwt.alg \notin algorithms THEN DecodeRaised("PyJWTError")
    ELSE IF encoded_jwt.alg = "RS256" /\ IsPrivateKey(public_key)
    THEN DecodeRaised("AttributeError")
    ELSE IF ~SignatureVerifies(encoded_jwt, public_key)
    THEN DecodeRaised("PyJWTError")
    ELSE IF encoded_jwt.exp # NoTime /\ encoded_jwt.exp <= now
    THEN DecodeRaised("PyJWTError")
    ELSE IF ~AudienceMatches(encoded_jwt.aud, audience)
    THEN DecodeRaised("PyJWTError")
    ELSE Decoded(encoded_jwt)

\* the key JWTStrategy.read_token hands to decode_jwt
read_token_key(cfg) == cfg.secret_key

\* JWTStrategy.read_token(token) at time now: the snapshot, None (present =
\* FALSE), or the exception that is no PyJWTError and so is not caught
read_token(cfg, token, now) ==
    IF ~token.present THEN [raised |-> "none", user |-> NoIdentity]
    ELSE LET r == decode_jwt(token, read_token_key(cfg), cfg.audience,
                             {cfg.algorithm}, now) IN
         IF r.raised = "PyJWTError" THEN [raised |-> "none", user |-> NoIdentity]
         ELSE IF r.raised # "none" THEN [raised |-> r.raised, user |-> NoIdentity]
         ELSE IF r.data.user.kind # "user"
         THEN [raised |-> "none", user |-> NoIdentity]
         ELSE [raised |-> "none", user |-> r.data.user.user]

\* ------------------------------------------------ identity: the outcomes
HTTP_200_OK == 200
HTTP_204_NO_CONTENT == 204
HTTP_400_BAD_REQUEST == 400
HTTP_401_UNAUTHORIZED == 401
HTTP_403_FORBIDDEN == 403
HTTP_404_NOT_FOUND == 404
HTTP_500_INTERNAL_SERVER_ERROR == 500

\* ErrorCode members, by their values
LOGIN_BAD_CREDENTIALS == "login_bad_credentials"
USER_NOT_VERIFIED == "user_not_verified"
ORDER_IS_CONFIRMED == "order_is_confirmed"
RECORD_NOT_FOUND == "record_not_found"

\* what a dependency, a service call or a route ends with: nothing yet, a
\* value (the user and the token of a gate), an HTTPException that was
\* raised, a Response, or an exception nothing handles (status 500)
NoOutcome ==
    [kind |-> "none", status |-> 0, detail |-> "", user |-> NoIdentity,
     token |-> NoToken]
Yields(user, token) == [NoOutcome EXCEPT !.kind = "value", !.user = user,
                                         !.token = token]
HTTPException(status, detail) ==
    [NoOutcome EXCEPT !.kind = "http_exception", !.status = status,
                      !.detail = detail]
Response(status, token) ==
    [NoOutcome EXCEPT !.kind = "response", !.status = status, !.token = token]
Unhandled(exception) ==
    [NoOutcome EXCEPT !.kind = "unhandled",
                      !.status = HTTP_500_INTERNAL_SERVER_ERROR,
                      !.detail = exception]

\* ---------------------------------------------------- identity: the gate
\* required_roles: None (given = FALSE) or a list of role names
NoRequiredRoles == [given |-> FALSE, names |-> <<>>]
RequiredRoles(names) == [given |-> TRUE, names |-> names]

\* Authenticator._authenticate at time now
authenticate(cfg, token, now) ==
    IF ~token.present
    THEN HTTPException(HTTP_401_UNAUTHORIZED, "token_missing")
    ELSE LET r == read_token(cfg, token, now) IN
         IF r.raised # "none" THEN Unhandled(r.raised)
         ELSE IF ~r.user.present
         THEN HTTPException(HTTP_401_UNAUTHORIZED, "token_invalid")
         ELSE Yields(r.user, token)

\* a check that looks at verification before activity
check_user_activity_and_verification_swapped(user, is_active, is_verified) ==
    IF is_verified /\ ~user.is_verified
    THEN HTTPException(HTTP_403_FORBIDDEN, "user_unverified")
    ELSE IF is_active /\ ~user.is_active
    THEN HTTPException(HTTP_401_UNAUTHORIZED, "user_inactive")
    ELSE NoOutcome

\* Authenticator._check_user_activity_and_verification: NoOutcome when the
\* check passes
check_user_activity_and_verification(user, is_active, is_verified) ==
    IF is_active /\ ~user.is_active
    THEN HTTPException(HTTP_401_UNAUTHORIZED, "user_inactive")
    ELSE IF is_verified /\ ~user.is_verified
    THEN HTTPException(HTTP_403_FORBIDDEN, "user_unverified")
    ELSE NoOutcome

\* Authenticator._check_user_roles: the loop over required_roles raises at
\* the first name that is not among roles; None and [] skip the loop
check_user_roles(roles, required_roles) ==
    IF required_roles.given /\ required_roles.names # <<>>
          /\ \E i \in 1..Len(required_roles.names) :
                required_roles.names[i] \notin roles
    THEN HTTPException(HTTP_403_FORBIDDEN, "role_missing")
    ELSE NoOutcome

\* the two checks on a user, in the order the dependencies make them
check_user(user, is_active, is_verified, required_roles) ==
    LET a == check_user_activity_and_verification(user, is_active, is_verified)
    IN IF a # NoOutcome THEN a
       ELSE check_user_roles(user.roles, required_roles)

\* _current_jwt_user_dependency at time now
current_jwt_user(cfg, token, now, is_active, is_verified, required_roles) ==
    LET auth == authenticate(cfg, token, now) IN
    IF auth.kind # "value" THEN auth
    ELSE LET c == check_user(auth.user, is_active, is_verified, required_roles)
         IN IF c # NoOutcome THEN c ELSE Yields(auth.user, token)

\* a dependency that checks the snapshot of the token and returns the row
current_db_user_check_token(jwt_user, db_user, is_active, is_verified, required_roles) ==
    IF ~db_user.present
    THEN HTTPException(HTTP_401_UNAUTHORIZED, "user_missing")
    ELSE LET c == check_user(jwt_user, is_active, is_verified, required_roles)
         IN IF c # NoOutcome THEN c ELSE Yields(db_user, NoToken)

\* _current_db_user_dependency after user_service.get_by_id(jwt_user.id) has
\* returned db_user or raised RecordNotFoundException (present = FALSE)
current_db_user_check(jwt_user, db_user, is_active, is_verified, required_roles) ==
    IF ~db_user.present
    THEN HTTPException(HTTP_401_UNAUTHORIZED, "user_missing")
    ELSE LET c == check_user(db_user, is_active, is_verified, required_roles)
         IN IF c # NoOutcome THEN c ELSE Yields(db_user, NoToken)

\* AuthenticationBackend.logout: strategy_destroys / transport_responds say
\* whether destroy_token and get_logout_response return (TRUE) or raise their
\* NotSupported exception (FALSE); "transport" marks the transport's response
logout_propagates(strategy_destroys, transport_responds) ==
    IF ~strategy_destroys
    THEN Unhandled("StrategyDestroyTokenNotSupportedException")
    ELSE IF transport_responds
    THEN [Response(HTTP_200_OK, NoToken) EXCEPT !.detail = "transport"]
    ELSE Response(HTTP_204_NO_CONTENT, NoToken)

AuthenticationBackend_logout(strategy_destroys, transport_responds) ==
    IF transport_responds
    THEN [Response(HTTP_200_OK, NoToken) EXCEPT !.detail = "transport"]
    ELSE Response(HTTP_204_NO_CONTENT, NoToken)

\* ----------------------------------------------- identity: login, create
\* a service call that raised: the exception, as the caller of the service
\* sees it
Raises(exception) == [NoOutcome EXCEPT !.kind = "raised", !.detail = exception]

\* an authenticate that answers an unknown email without running the hasher
UserService_authenticate_no_hash(us, username, password) ==
    LET r == UserRepository_get_by_email(us, username) IN
    IF r.raised # "none" \/ ~r.user.present
    THEN [raised |-> r.raised, user |-> NoUserModel, hash_calls |-> 0,
          verify_calls |-> 0, updated_password_hash |-> <<>>]
    ELSE LET v == PasswordHelper_verify_and_update(password,
                                                   r.user.hashed_password) IN
         [raised |-> "none",
          user |-> IF v.verified THEN r.user ELSE NoUserModel,
          hash_calls |-> 0, verify_calls |-> 1,
          updated_password_hash |->
             IF v.verified THEN v.updated_password_hash ELSE <<>>]

\* UserService.authenticate(credentials) up to its await of
\* user_repository.update: the user it is about to return (None: present =
\* FALSE), the calls of password_helper.hash and of
\* password_helper.verify_and_update it made, and the new hash to store
UserService_authenticate(us, username, password) ==
    LET r == UserRepository_get_by_email(us, username) IN
    IF r.raised # "none"
    THEN [raised |-> r.raised, user |-> NoUserModel, hash_calls |-> 0,
          verify_calls |-> 0, updated_password_hash |-> <<>>]
    ELSE IF ~r.user.present
    THEN [raised |-> "none", user |-> NoUserModel, hash_calls |-> 1,
          verify_calls |-> 0, updated_password_hash |-> <<>>]
    ELSE LET v == PasswordHelper_verify_and_update(password,
                                                   r.user.hashed_password) IN
         IF ~v.verified
         THEN [raised |-> "none", user |-> NoUserModel, hash_calls |-> 0,
               verify_calls |-> 1, updated_password_hash |-> <<>>]
         ELSE [raised |-> "none", user |-> r.user, hash_calls |-> 0,
               verify_calls |-> 1,
               updated_password_hash |-> v.updated_password_hash]

\* AuthenticationBackend.login(user) at time now: the token of write_token in
\* the login response of the transport
AuthenticationBackend_login(cfg, user_schema, now) ==
    Response(HTTP_200_OK, write_token(cfg, user_schema, now))

\* a route that hands a token to every active user it authenticated
login_without_verification(cfg, user, requires_verification, now) ==
    IF ~user.present \/ ~user.is_active
    THEN HTTPException(HTTP_400_BAD_REQUEST, LOGIN_BAD_CREDENTIALS)
    ELSE AuthenticationBackend_login(cfg, UserSchemaOf(user), now)

\* route login after user_service.authenticate has returned user
login(cfg, user, requires_verification, now) ==
    IF ~user.present \/ ~user.is_active
    THEN HTTPException(HTTP_400_BAD_REQUEST, LOGIN_BAD_CREDENTIALS)
    ELSE IF requires_verification /\ ~user.is_verified
    THEN HTTPException(HTTP_400_BAD_REQUEST, USER_NOT_VERIFIED)
    ELSE AuthenticationBackend_login(cfg, UserSchemaOf(user), now)

\* the value of an optional bool field of a request
FieldValues == {"unset", "true", "false"}

\* the value that stands for a field the request left out
UnsetValue(f) ==
    CASE f = "password" -> <<>>
      [] f = "role_names" -> {"unset"}
      [] OTHER -> "unset"

\* CreateUpdateDictModel.get_create_update_dict(): model_dump of the fields
\* the request set (exclude_unset), without id, is_active and is_verified
get_create_update_dict(model) ==
    LET fields_set == {f \in DOMAIN model : model[f] # UnsetValue(f)} IN
    [f \in fields_set \ {"id", "is_active", "is_verified"} |-> model[f]]

\* the key of validated_update_dict a field of update_dict ends under
ValidatedField(f) ==
    CASE f = "password" -> "hashed_password"
      [] f = "role_names" -> "roles"
      [] OTHER -> f

\* User(**create_dict) and the INSERT: a column the dict does not name gets
\* the default of the model
ColumnValue(create_dict, column, default) ==
    IF column \in DOMAIN create_dict THEN create_dict[column] = "true"
    ELSE default

UserRepository_create(create_dict) ==
    [present |-> TRUE, email |-> create_dict.email,
     hashed_password |-> create_dict.hashed_password,
     is_active |-> ColumnValue(create_dict, "is_active", User_is_active_default),
     is_verified |-> ColumnValue(create_dict, "is_verified",
                                 User_is_verified_default),
     roles |-> create_dict.roles]

\* user_dict of UserService.create after password and role_ids are popped
\* and hashed_password and roles are put in
UserDict(user_create) ==
    LET user_dict == get_create_update_dict(user_create) IN
    [f \in (DOMAIN user_dict \ {"password", "role_names"})
              \cup {"hashed_password", "roles"} |->
        CASE f = "hashed_password" -> PasswordHelper_hash(user_dict["password"])
          [] f = "roles" -> user_dict["role_names"]
          [] OTHER -> user_dict[f]]

\* UserService._update(user, update_dict) up to its await of
\* user_repository.update, without the reset of is_verified
UserService_update_keep_verified(us, user, update_dict) ==
    LET changes_email == /\ "email" \in DOMAIN update_dict
                         /\ update_dict["email"] # user.email
        existing == IF changes_email
                    THEN UserRepository_get_by_email(us, update_dict["email"])
                    ELSE [raised |-> "none", user |-> NoUserModel] IN
    IF existing.raised # "none" THEN [raised |-> existing.raised, dict |-> <<>>]
    ELSE IF existing.user.present
    THEN [raised |-> "RecordAlreadyExistsException", dict |-> <<>>]
    ELSE IF /\ "password" \in DOMAIN update_dict
            /\ ~validate_password(update_dict["password"])
    THEN [raised |-> "InvalidPasswordException", dict |-> <<>>]
    ELSE [raised |-> "none",
          dict |-> [f \in {ValidatedField(g) : g \in DOMAIN update_dict} |->
                      CASE f = "hashed_password"
                             -> PasswordHelper_hash(update_dict["password"])
                        [] f = "roles" -> update_dict["role_names"]
                        [] OTHER -> update_dict[f]]]

\* UserService._update(user, update_dict) up to its await of
\* user_repository.update: the exception it raises, or
\* validated_update_dict.  The loop takes the fields in the order of the
\* schema: email (with get_by_email when it differs from user.email), then
\* password, then role_ids
UserService_update(us, user, update_dict) ==
    LET changes_email == /\ "email" \in DOMAIN update_dict
                         /\ update_dict["email"] # user.email
        existing == IF changes_email
                    THEN UserRepository_get_by_email(us, update_dict["email"])
                    ELSE [raised |-> "none", user |-> NoUserModel] IN
    IF existing.raised # "none" THEN [raised |-> existing.raised, dict |-> <<>>]
    ELSE IF existing.user.present
    THEN [raised |-> "RecordAlreadyExistsException", dict |-> <<>>]
    ELSE IF /\ "password" \in DOMAIN update_dict
            /\ ~validate_password(update_dict["password"])
    THEN [raised |-> "InvalidPasswordException", dict |-> <<>>]
    ELSE [raised |-> "none",
          dict |-> [f \in {ValidatedField(g) : g \in DOMAIN update_dict}
                            \cup (IF changes_email THEN {"is_verified"} ELSE {})
                      |->
                      CASE f = "hashed_password"
                             -> PasswordHelper_hash(update_dict["password"])
                        [] f = "roles" -> update_dict["role_names"]
                        [] f = "is_verified" -> FALSE
                        [] OTHER -> update_dict[f]]]

\* UserRepository.update(user, update_dict) on the row of user: setattr for
\* every key, and the UPDATE of the columns whose value differs from the one
\* the instance was loaded with
UserRepository_update(row, user, update_dict) ==
    LET modified(f) == f \in DOMAIN update_dict /\ update_dict[f] # user[f] IN
    [row EXCEPT
       !.email = IF modified("email") THEN update_dict["email"] ELSE @,
       !.is_verified = IF modified("is_verified")
                       THEN update_dict["is_verified"] ELSE @,
       !.hashed_password = IF modified("hashed_password")
                           THEN update_dict["hashed_password"] ELSE @,
       !.roles = IF modified("roles") THEN update_dict["roles"] ELSE @]

\* the unique constraint of users.email (exact match) refuses the row
EmailTaken(us, user_id, email) ==
    \E i \in DOMAIN us : i # user_id /\ us[i].present /\ us[i].email = email

\* ------------------------------------------------- identity: the request
\* no request of the identity routes is being served; a request in progress
\* is a record of the fields its operation uses
IdleSession == [op |-> "none", pc |-> "idle"]

\* the configuration and the users table of a deployment that serves orders
DefaultConfig == JWTStrategy("secret", "secret", "HS256", 2, NIMBUS_AUDIENCE)
NoUsers == [i \in UserRowIds |-> NoUser]

\* ---------------------------------------------------------------- state
VARIABLES
    store,      \* table orders: order id -> row
    next_id,    \* the id the next INSERT gets
    cache,      \* Redis: key -> <<>> or <<JSON document>>
    events,     \* messages the producer has delivered to the topic, in order
    clock,      \* datetime.now()
    nreq,       \* requests started so far
    proc,       \* the requests in flight, one per worker slot
    hist,       \* history: every row state ever committed, per order id
    deleted,    \* history: ids for which a soft_delete has run to its end
    config,     \* settings.AUTH.JWT_STRATEGY, as JWTStrategy.__init__ keeps it
    users,      \* table users with the roles of each row: user id -> row
    next_user_id,   \* the id the next INSERT into users gets
    session     \* the request of the identity routes being served

\* the variables of the order lifecycle (the clock apart) and those of the
\* identity pipeline
orders == <<store, next_id, cache, events, nreq, proc, hist, deleted>>
identity == <<config, users, next_user_id, session>>

vars == <<store, next_id, cache, events, clock, nreq, proc, hist, deleted,
          config, users, next_user_id, session>>

NoData ==
    [has_status |-> FALSE, status |-> "PENDING", has_items |-> FALSE,
     total_price |-> 0, order_products |-> {}]

NoResult == [kind |-> "none", value |-> NoSchema]
Returned(schema) == [kind |-> "ok", value |-> schema]
Raised(exception) == [kind |-> exception, value |-> NoSchema]

IdleProc ==
    [pc |-> "idle", op |-> "none", order_id |-> 0, user_id |-> 0,
     data |-> NoData, order_model |-> NoModel, original_status |-> "PENDING",
     ts |-> NoTime, result |-> NoResult,
     \* history of the request
     store_reads |-> 0, committed |-> FALSE, cache_written |-> FALSE,
     published |-> 0, confirmed_at_load |-> FALSE, after_delete |-> FALSE,
     cache_differs_at_load |-> FALSE]

Init ==
    /\ store = [i \in OrderIds |-> NoRow]
    /\ next_id = 1
    /\ cache = [k \in CacheKeys |-> <<>>]
    /\ events = <<>>
    /\ clock = 1
    /\ nreq = 0
    /\ proc = [p \in Procs |-> IdleProc]
    /\ hist = [i \in OrderIds |-> {}]
    /\ deleted = {}
    /\ config = DefaultConfig
    /\ users = NoUsers
    /\ next_user_id = 5
    /\ session = IdleSession

\* a worker slot can take a new request
Free(p) == proc[p].pc \in {"idle", "done"} /\ nreq < MaxOps

\* the fresh request record of a call
NewCall(op, order_id) ==
    [IdleProc EXCEPT !.op = op, !.order_id = order_id,
                     !.after_delete = order_id \in deleted]

\* the request has ended with this result; its locals are gone
Finish(r, result) ==
    [IdleProc EXCEPT !.pc = "done", !.op = r.op, !.order_id = r.order_id,
                     !.result = result, !.store_reads = r.store_reads,
                     !.committed = r.committed,
                     !.cache_written = r.cache_written,
                     !.published = r.published,
                     !.confirmed_at_load = r.confirmed_at_load,
                     !.after_delete = r.after_delete,
                     !.cache_differs_at_load = r.cache_differs_at_load]

\* ------------------------------------------- _update_cache_and_serialize
\* a serializer that returns the schema and forgets the cache
update_cache_and_serialize_no_set(c, order_model) ==
    [raised |-> ~JsonSerializable(OrderSchemaOf(order_model)),
     schema |-> OrderSchemaOf(order_model), cache |-> c]

\* validate the model, write its JSON under order:<id>, return the schema;
\* json.dumps raises TypeError on a schema it cannot serialize
update_cache_and_serialize(c, order_model) ==
    LET order_schema == OrderSchemaOf(order_model) IN
    IF JsonSerializable(order_schema)
    THEN [raised |-> FALSE, schema |-> order_schema,
          cache |-> CacheRepository_set(c, CACHE_PREFIX, order_schema.id,
                                        JsonDumps(order_schema))]
    ELSE [raised |-> TRUE, schema |-> order_schema, cache |-> c]

\* the step of a request that runs _update_cache_and_serialize on its model
CacheSetStep(p) ==
    LET r == update_cache_and_serialize(cache, proc[p].order_model) IN
    /\ cache' = r.cache
    /\ proc' = [proc EXCEPT ![p] =
                  IF r.raised THEN Finish(@, Raised("TypeError"))
                  ELSE Finish([@ EXCEPT !.cache_written = TRUE],
                              Returned(r.schema))]
    /\ UNCHANGED <<store, next_id, events, clock, nreq, hist, deleted>>

\* ------------------------------------------------------------ get_by_id
\* a get_by_id that goes to the store whether or not the cache has the order
GetByIdCache_store_first(p) ==
    /\ Free(p)
    /\ \E order_id \in OrderIds :
         proc' = [proc EXCEPT ![p] =
                    [NewCall("get_by_id", order_id) EXCEPT !.pc = "g_fetch"]]
    /\ nreq' = nreq + 1
    /\ UNCHANGED <<store, next_id, cache, events, clock, hist, deleted>>
    /\ UNCHANGED identity

\* cache_repository.get: a hit returns the cached order
GetByIdCache(p) ==
    /\ Free(p)
    /\ \E order_id \in OrderIds :
         LET cached_data == CacheRepository_get(cache, CACHE_PREFIX, order_id)
             r == NewCall("get_by_id", order_id) IN
         proc' = [proc EXCEPT ![p] =
                    IF cached_data # <<>>
                    THEN Finish(r, Returned(JsonLoads(cached_data[1])))
                    ELSE [r EXCEPT !.pc = "g_fetch"]]
    /\ nreq' = nreq + 1
    /\ UNCHANGED <<store, next_id, cache, events, clock, hist, deleted>>
    /\ UNCHANGED identity

\* _fetch_order_or_raise on a miss
GetByIdFetch(p) ==
    /\ proc[p].pc = "g_fetch"
    /\ LET order_model == OrderRepository_get_by_id(store, proc[p].order_id) IN
       proc' = [proc EXCEPT ![p] =
                  IF ~order_model.present
                  THEN Finish([@ EXCEPT !.store_reads = @ + 1],
                              Raised("RecordNotFound"))
                  ELSE [@ EXCEPT !.pc = "g_cache_set",
                                 !.store_reads = @ + 1,
                                 !.order_model = order_model]]
    /\ UNCHANGED <<store, next_id, cache, events, clock, nreq, hist, deleted>>
    /\ UNCHANGED identity

GetByIdCacheSet(p) ==
    /\ proc[p].pc = "g_cache_set"
    /\ CacheSetStep(p)
    /\ UNCHANGED identity

\* --------------------------------------------------------------- create
CreateInputs ==
    {[has_status |-> FALSE, status |-> "PENDING", has_items |-> TRUE,
      total_price |-> 10, order_products |-> l] : l \in {{1}}}

\* order_repository.create up to session.commit(): INSERT with a new id
CreateCommit(p) ==
    /\ Free(p)
    /\ next_id \in OrderIds
    /\ \E user_id \in UserIds, order_create \in CreateInputs :
         LET row == NewRow(user_id, order_create.total_price,
                           order_create.order_products) IN
         /\ store' = [store EXCEPT ![next_id] = row]
         /\ hist' = [hist EXCEPT ![next_id] = @ \cup {row}]
         /\ proc' = [proc EXCEPT ![p] =
                       [NewCall("create", next_id) EXCEPT
                          !.pc = "c_refresh", !.user_id = user_id,
                          !.data = order_create, !.committed = TRUE,
                          !.order_model = ModelOf(next_id, row)]]
    /\ next_id' = next_id + 1
    /\ nreq' = nreq + 1
    /\ UNCHANGED <<cache, events, clock, deleted>>
    /\ UNCHANGED identity

\* session.refresh(order) after the commit
CreateRefresh(p) ==
    /\ proc[p].pc = "c_refresh"
    /\ LET order_model == SessionRefresh(store, proc[p].order_id) IN
       proc' = [proc EXCEPT ![p] =
                  IF ~order_model.present
                  THEN Finish(@, Raised("DBError"))
                  ELSE [@ EXCEPT !.pc = "c_cache_set",
                                 !.order_model = order_model]]
    /\ UNCHANGED <<store, next_id, cache, events, clock, nreq, hist, deleted>>
    /\ UNCHANGED identity

CreateCacheSet(p) ==
    /\ proc[p].pc = "c_cache_set"
    /\ CacheSetStep(p)
    /\ UNCHANGED identity

\* --------------------------------------------------------------- update
UpdateInputs ==
    {[has_status |-> TRUE, status |-> s, has_items |-> FALSE,
      total_price |-> 0, order_products |-> {}] : s \in OrderStatus}
    \cup
    {[has_status |-> h, status |-> IF h THEN "CONFIRMED" ELSE "PENDING",
      has_items |-> TRUE, total_price |-> 20, order_products |-> {2}] :
        h \in BOOLEAN}

\* _convert_order_products: an empty list is popped and not put back
ConvertedOrderProducts(data) == data.has_items /\ data.order_products # {}

\* an update that writes the whole instance back, deleted_at included
OrderRepository_update_whole_row(row, order_model, data) ==
    IF ~row.present THEN [raised |-> TRUE, row |-> row]
    ELSE [raised |-> FALSE,
          row |-> [row EXCEPT
                     !.status = IF data.has_status THEN data.status ELSE @,
                     !.total_price = IF data.has_items THEN data.total_price
                                     ELSE @,
                     !.deleted_at = order_model.deleted_at]]

\* OrderRepository.update up to session.commit(): setattr of every key of the
\* dict on the loaded instance, then the flush writes by primary key the
\* columns whose value differs from the loaded one, deletes the line items
\* that left the collection and inserts those that entered it.  The flush
\* fails (StaleDataError, IntegrityError) when the row is gone or an inserted
\* line item already exists.
OrderRepository_update(row, order_model, data) ==
    LET status_set == data.has_status /\ data.status # order_model.status
        price_set == data.has_items /\ data.total_price # order_model.total_price
        lines_set == ConvertedOrderProducts(data)
        removed == IF lines_set THEN order_model.lines \ data.order_products ELSE {}
        inserted == IF lines_set THEN data.order_products \ order_model.lines ELSE {}
        wrote == status_set \/ price_set \/ removed # {} \/ inserted # {}
    IN
    IF wrote /\ (~row.present \/ inserted \cap row.lines # {})
    THEN [raised |-> TRUE, row |-> row]
    ELSE [raised |-> FALSE,
          row |-> IF ~row.present THEN row
                  ELSE [row EXCEPT
                          !.status = IF status_set THEN data.status ELSE @,
                          !.total_price = IF price_set THEN data.total_price ELSE @,
                          !.lines = (@ \ removed) \cup inserted]]

\* a check that lets every status through
IsConfirmed_never(order_model) == FALSE

\* a check against another member of the enum
IsConfirmed_cancelled(order_model) == order_model.status = "CANCELLED"

\* order_model.status == OrderStatus.CONFIRMED
IsConfirmed(order_model) == order_model.status = "CONFIRMED"

\* setattr(order, key, value) for the keys of the update dict
SetAttrs(order_model, data) ==
    [order_model EXCEPT
       !.status = IF data.has_status THEN data.status ELSE @,
       !.total_price = IF data.has_items THEN data.total_price ELSE @,
       !.lines = IF ConvertedOrderProducts(data) THEN data.order_products ELSE @]

\* history: the status the cache shows for the order, "none" without entry
CachedStatus(c, order_id) ==
    LET cached_data == CacheRepository_get(c, CACHE_PREFIX, order_id) IN
    IF cached_data = <<>> THEN "none" ELSE JsonLoads(cached_data[1]).status

\* history: the cache has the order, and shows it CONFIRMED where the loaded
\* row is not, or the other way round
CacheDiffers(c, order_id, order_model) ==
    /\ order_model.present
    /\ CachedStatus(c, order_id) # "none"
    /\ (CachedStatus(c, order_id) = "CONFIRMED")
         # (order_model.status = "CONFIRMED")

\* an update that takes the order from the cache when the cache has it
UpdateFetch_from_cache(p) ==
    /\ Free(p)
    /\ \E order_id \in OrderIds, order_update \in UpdateInputs :
         LET cached_data == CacheRepository_get(cache, CACHE_PREFIX, order_id)
             cached == JsonLoads(cached_data[1])
             order_model ==
                IF cached_data = <<>>
                THEN OrderRepository_get_by_id(store, order_id)
                ELSE [present |-> TRUE, user_id |-> cached.user_id,
                      status |-> cached.status,
                      total_price |-> cached.total_price,
                      deleted_at |-> NoTime, lines |-> cached.order_products,
                      id |-> order_id]
             r == [NewCall("update", order_id) EXCEPT
                     !.data = order_update,
                     !.store_reads = IF cached_data = <<>> THEN 1 ELSE 0,
                     !.confirmed_at_load =
                        order_model.present /\ order_model.status = "CONFIRMED"] IN
         proc' = [proc EXCEPT ![p] =
                    IF ~order_model.present
                    THEN Finish(r, Raised("RecordNotFound"))
                    ELSE IF IsConfirmed(order_model)
                    THEN Finish(r, Raised("OrderIsConfirmed"))
                    ELSE [r EXCEPT !.pc = "u_commit",
                                   !.order_model = order_model,
                                   !.original_status = order_model.status]]
    /\ nreq' = nreq + 1
    /\ UNCHANGED <<store, next_id, cache, events, clock, hist, deleted>>
    /\ UNCHANGED identity

\* a check on the status the cache shows, the store's only on a miss
UpdateFetch_cached_status(p) ==
    /\ Free(p)
    /\ \E order_id \in OrderIds, order_update \in UpdateInputs :
         LET order_model == OrderRepository_get_by_id(store, order_id)
             status == IF CachedStatus(cache, order_id) = "none"
                       THEN order_model.status
                       ELSE CachedStatus(cache, order_id)
             r == [NewCall("update", order_id) EXCEPT
                     !.data = order_update, !.store_reads = 1,
                     !.cache_differs_at_load =
                        CacheDiffers(cache, order_id, order_model),
                     !.confirmed_at_load =
                        order_model.present /\ order_model.status = "CONFIRMED"] IN
         proc' = [proc EXCEPT ![p] =
                    IF ~order_model.present
                    THEN Finish(r, Raised("RecordNotFound"))
                    ELSE IF status = "CONFIRMED"
                    THEN Finish(r, Raised("OrderIsConfirmed"))
                    ELSE [r EXCEPT !.pc = "u_commit",
                                   !.order_model = order_model,
                                   !.original_status = order_model.status]]
    /\ nreq' = nreq + 1
    /\ UNCHANGED <<store, next_id, cache, events, clock, hist, deleted>>
    /\ UNCHANGED identity

\* an update that writes the cache from the instance it has just modified,
\* before the store commit
UpdateFetch_cache_first(p) ==
    /\ Free(p)
    /\ \E order_id \in OrderIds, order_update \in UpdateInputs :
         LET order_model == OrderRepository_get_by_id(store, order_id)
             r == [NewCall("update", order_id) EXCEPT
                     !.data = order_update, !.store_reads = 1,
                     !.cache_differs_at_load =
                        CacheDiffers(cache, order_id, order_model),
                     !.confirmed_at_load =
                        order_model.present /\ order_model.status = "CONFIRMED"]
             ok == order_model.present /\ ~IsConfirmed(order_model) IN
         /\ proc' = [proc EXCEPT ![p] =
                    IF ~order_model.present
                    THEN Finish(r, Raised("RecordNotFound"))
                    ELSE IF IsConfirmed(order_model)
                    THEN Finish(r, Raised("OrderIsConfirmed"))
                    ELSE [r EXCEPT !.pc = "u_commit",
                                   !.order_model = order_model,
                                   !.original_status = order_model.status]]
         /\ cache' = IF ok
                     THEN update_cache_and_serialize(
                              cache, SetAttrs(order_model, order_update)).cache
                     ELSE cache
    /\ nreq' = nreq + 1
    /\ UNCHANGED <<store, next_id, events, clock, hist, deleted>>
    /\ UNCHANGED identity

\* _fetch_order_or_raise and the CONFIRMED check
UpdateFetch(p) ==
    /\ Free(p)
    /\ \E order_id \in OrderIds, order_update \in UpdateInputs :
         LET order_model == OrderRepository_get_by_id(store, order_id)
             r == [NewCall("update", order_id) EXCEPT
                     !.data = order_update, !.store_reads = 1,
                     !.cache_differs_at_load =
                        CacheDiffers(cache, order_id, order_model),
                     !.confirmed_at_load =
                        order_model.present /\ order_model.status = "CONFIRMED"] IN
         proc' = [proc EXCEPT ![p] =
                    IF ~order_model.present
                    THEN Finish(r, Raised("RecordNotFound"))
                    ELSE IF IsConfirmed(order_model)
                    THEN Finish(r, Raised("OrderIsConfirmed"))
                    ELSE [r EXCEPT !.pc = "u_commit",
                                   !.order_model = order_model,
                                   !.original_status = order_model.status]]
    /\ nreq' = nreq + 1
    /\ UNCHANGED <<store, next_id, cache, events, clock, hist, deleted>>
    /\ UNCHANGED identity

\* order_repository.update up to the commit
UpdateCommit(p) ==
    /\ proc[p].pc = "u_commit"
    /\ LET order_id == proc[p].order_id
           r == OrderRepository_update(store[order_id], proc[p].order_model,
                                       proc[p].data) IN
       IF r.raised
       THEN /\ proc' = [proc EXCEPT ![p] = Finish(@, Raised("DBError"))]
            /\ UNCHANGED <<store, hist>>
       ELSE /\ store' = [store EXCEPT ![order_id] = r.row]
            /\ hist' = [hist EXCEPT ![order_id] =
                          IF r.row.present THEN @ \cup {r.row} ELSE @]
            /\ proc' = [proc EXCEPT ![p] =
                          [@ EXCEPT !.pc = "u_refresh", !.committed = TRUE]]
    /\ UNCHANGED <<next_id, cache, events, clock, nreq, deleted>>
    /\ UNCHANGED identity

\* session.refresh(order), then updated_status = order_model.status
UpdateRefresh(p) ==
    /\ proc[p].pc = "u_refresh"
    /\ LET order_model == SessionRefresh(store, proc[p].order_id) IN
       proc' = [proc EXCEPT ![p] =
                  IF ~order_model.present
                  THEN Finish(@, Raised("DBError"))
                  ELSE [@ EXCEPT
                          !.pc = IF proc[p].original_status # order_model.status
                                 THEN "u_emit" ELSE "u_cache_set",
                          !.order_model = order_model]]
    /\ UNCHANGED <<store, next_id, cache, events, clock, nreq, hist, deleted>>
    /\ UNCHANGED identity

\* a message with the two statuses in each other's place
StatusUpdateEvent_swapped(order_id, old_status, new_status) ==
    [order_id |-> order_id, old_status |-> OrderStatusValue(new_status),
     new_status |-> OrderStatusValue(old_status)]

\* the message of send_order_status_update_event
StatusUpdateEvent(order_id, old_status, new_status) ==
    [order_id |-> order_id, old_status |-> OrderStatusValue(old_status),
     new_status |-> OrderStatusValue(new_status)]

\* an update that takes the status change back when the event is not sent
UpdateEmit_rollback(p) ==
    /\ proc[p].pc = "u_emit"
    /\ \/ /\ events' = Append(events,
                         StatusUpdateEvent(proc[p].order_id,
                                           proc[p].original_status,
                                           proc[p].order_model.status))
          /\ proc' = [proc EXCEPT ![p] =
                        [@ EXCEPT !.pc = "u_cache_set", !.published = @ + 1]]
          /\ UNCHANGED store
       \/ /\ proc' = [proc EXCEPT ![p] = Finish(@, Raised("KafkaError"))]
          /\ store' = [store EXCEPT ![proc[p].order_id].status =
                                      proc[p].original_status]
          /\ UNCHANGED events
    /\ UNCHANGED <<next_id, cache, clock, nreq, hist, deleted>>
    /\ UNCHANGED identity

\* send_order_status_update_event: kafka_manager.send delivers the message,
\* or raises (producer not started, broker error) and update ends there
UpdateEmit(p) ==
    /\ proc[p].pc = "u_emit"
    /\ \/ /\ events' = Append(events,
                         StatusUpdateEvent(proc[p].order_id,
                                           proc[p].original_status,
                                           proc[p].order_model.status))
          /\ proc' = [proc EXCEPT ![p] =
                        [@ EXCEPT !.pc = "u_cache_set", !.published = @ + 1]]
       \/ /\ proc' = [proc EXCEPT ![p] = Finish(@, Raised("KafkaError"))]
          /\ UNCHANGED events
    /\ UNCHANGED <<store, next_id, cache, clock, nreq, hist, deleted>>
    /\ UNCHANGED identity

UpdateCacheSet(p) ==
    /\ proc[p].pc = "u_cache_set"
    /\ CacheSetStep(p)
    /\ UNCHANGED identity

\* ---------------------------------------------- soft_delete, hard_delete
\* the UPDATE statement is built, with datetime.now(), before it is awaited
SoftDeleteCall(p) ==
    /\ Free(p)
    /\ \E order_id \in OrderIds :
         proc' = [proc EXCEPT ![p] =
                    [NewCall("soft_delete", order_id) EXCEPT
                       !.pc = "s_store", !.ts = clock]]
    /\ clock' = clock + 1
    /\ nreq' = nreq + 1
    /\ UNCHANGED <<store, next_id, cache, events, hist, deleted>>
    /\ UNCHANGED identity

\* UPDATE orders SET deleted_at = :now WHERE id = :id
OrderRepository_soft_delete(row, now) ==
    IF row.present THEN [row EXCEPT !.deleted_at = now] ELSE row

SoftDeleteStore(p) ==
    /\ proc[p].pc = "s_store"
    /\ LET order_id == proc[p].order_id
           row == OrderRepository_soft_delete(store[order_id], proc[p].ts) IN
       /\ store' = [store EXCEPT ![order_id] = row]
       /\ hist' = [hist EXCEPT ![order_id] =
                     IF row.present THEN @ \cup {row} ELSE @]
    /\ proc' = [proc EXCEPT ![p] =
                  [@ EXCEPT !.pc = "s_cache_delete", !.committed = TRUE]]
    /\ UNCHANGED <<next_id, cache, events, clock, nreq, deleted>>
    /\ UNCHANGED identity

\* cache_repository.delete(order_id): the one positional argument the
\* service passes
CacheDeleteStep(p) ==
    LET r == CacheRepository_delete(cache, <<proc[p].order_id>>) IN
    /\ cache' = r.cache
    /\ proc' = [proc EXCEPT ![p] =
                  IF r.raised THEN Finish(@, Raised("TypeError"))
                  ELSE Finish(@, Returned(NoSchema))]

SoftDeleteCacheDelete(p) ==
    /\ proc[p].pc = "s_cache_delete"
    /\ CacheDeleteStep(p)
    /\ deleted' = deleted \cup {proc[p].order_id}
    /\ UNCHANGED <<store, next_id, events, clock, nreq, hist>>
    /\ UNCHANGED identity

\* DELETE FROM orders WHERE id = :id (line items go by ON DELETE CASCADE)
HardDeleteStore(p) ==
    /\ Free(p)
    /\ \E order_id \in OrderIds :
         /\ store' = [store EXCEPT ![order_id] = NoRow]
         /\ proc' = [proc EXCEPT ![p] =
                       [NewCall("hard_delete", order_id) EXCEPT
                          !.pc = "h_cache_delete", !.committed = TRUE]]
    /\ nreq' = nreq + 1
    /\ UNCHANGED <<next_id, cache, events, clock, hist, deleted>>
    /\ UNCHANGED identity

HardDeleteCacheDelete(p) ==
    /\ proc[p].pc = "h_cache_delete"
    /\ CacheDeleteStep(p)
    /\ UNCHANGED <<store, next_id, events, clock, nreq, hist, deleted>>
    /\ UNCHANGED identity

\* the request is cancelled (client gone, timeout) at the await it is
\* suspended in: nothing it has committed is undone
Cancel(p) ==
    /\ proc[p].pc \notin {"idle", "done"}
    /\ proc' = [proc EXCEPT ![p] = Finish(@, Raised("Cancelled"))]
    /\ UNCHANGED <<store, next_id, cache, events, clock, nreq, hist, deleted>>
    /\ UNCHANGED identity

Next ==
    \E p \in Procs :
       \/ GetByIdCache(p)
       \/ GetByIdFetch(p)
       \/ GetByIdCacheSet(p)
       \/ CreateCommit(p)
       \/ CreateRefresh(p)
       \/ CreateCacheSet(p)
       \/ UpdateFetch(p)
       \/ UpdateCommit(p)
       \/ UpdateRefresh(p)
       \/ UpdateEmit(p)
       \/ UpdateCacheSet(p)
       \/ SoftDeleteCall(p)
       \/ SoftDeleteStore(p)
       \/ SoftDeleteCacheDelete(p)
       \/ HardDeleteStore(p)
       \/ HardDeleteCacheDelete(p)
       \/ Cancel(p)

Spec == Init /\ [][Next]_vars

\* ------------------------------------------------------- the two gates
\* the snapshots of user 5 a token can embed
Snapshots ==
    {[present |-> TRUE, id |-> 5, email |-> "a@x.io", is_active |-> a,
      is_verified |-> v, roles |-> r] :
        a \in BOOLEAN, v \in BOOLEAN, r \in {{}, {"admin"}, {"admin", "user"}}}

\* the tokens a request can carry at time now: none, a string that is no
\* JWT, a token of this deployment (expired or not) for each snapshot, and a
\* token signed with a key of somebody else
GateTokens(cfg, now) ==
    {NoToken, Garbage}
    \cup {write_token(cfg, s, t) : s \in Snapshots, t \in {now - cfg.lifetime, now}}
    \cup {[write_token(cfg, s, now) EXCEPT !.signed_with = "foreign_private"] :
            s \in Snapshots}

RequiredRolesInputs ==
    {NoRequiredRoles, RequiredRoles(<<>>), RequiredRoles(<<"admin">>),
     RequiredRoles(<<"admin", "user">>), RequiredRoles(<<"user", "admin">>)}

\* a behaviour of the identity pipeline serves one request, while other
\* requests change the users table
SessionFree == session.pc = "idle"

\* a token gate that looks the account up and decides on the stored row
CurrentJwtUser_store_checked ==
    /\ SessionFree
    /\ \E token \in GateTokens(config, clock), is_active \in BOOLEAN,
          is_verified \in BOOLEAN, required_roles \in RequiredRolesInputs :
         LET auth == authenticate(config, token, clock)
             db_user == UserRepository_get_by_id(users, auth.user.id)
             c == check_user(db_user, is_active, is_verified, required_roles) IN
         session' = [op |-> "current_jwt_user", pc |-> "done",
                     token |-> token, is_active |-> is_active,
                     is_verified |-> is_verified,
                     required_roles |-> required_roles,
                     outcome |->
                        IF auth.kind # "value" THEN auth
                        ELSE IF ~db_user.present
                        THEN HTTPException(HTTP_401_UNAUTHORIZED, "user_missing")
                        ELSE IF c # NoOutcome THEN c
                        ELSE Yields(auth.user, token)]
    /\ UNCHANGED <<config, users, next_user_id, orders, clock>>

\* a request through a dependency made by current_jwt_user(...)
CurrentJwtUser ==
    /\ SessionFree
    /\ \E token \in GateTokens(config, clock), is_active \in BOOLEAN,
          is_verified \in BOOLEAN, required_roles \in RequiredRolesInputs :
         session' = [op |-> "current_jwt_user", pc |-> "done",
                     token |-> token, is_active |-> is_active,
                     is_verified |-> is_verified,
                     required_roles |-> required_roles,
                     outcome |-> current_jwt_user(config, token, clock,
                                                  is_active, is_verified,
                                                  required_roles)]
    /\ UNCHANGED <<config, users, next_user_id, orders, clock>>

\* a request through a dependency made by current_db_user(...), up to the
\* await of user_service.get_by_id
CurrentDbUserAuthenticate ==
    /\ SessionFree
    /\ \E token \in GateTokens(config, clock), is_active \in BOOLEAN,
          is_verified \in BOOLEAN, required_roles \in RequiredRolesInputs :
         LET auth == authenticate(config, token, clock)
             s == [op |-> "current_db_user", pc |-> "done", token |-> token,
                   is_active |-> is_active, is_verified |-> is_verified,
                   required_roles |-> required_roles,
                   jwt_user |-> NoIdentity, db_user |-> NoUserModel,
                   outcome |-> auth] IN
         session' = IF auth.kind # "value" THEN s
                    ELSE [s EXCEPT !.pc = "db_fetch", !.jwt_user = auth.user,
                                   !.outcome = NoOutcome]
    /\ UNCHANGED <<config, users, next_user_id, orders, clock>>

\* user_service.get_by_id(jwt_user.id) and the checks on the row it returns
CurrentDbUserFetch ==
    /\ session.pc = "db_fetch"
    /\ LET db_user == UserRepository_get_by_id(users, session.jwt_user.id) IN
       session' = [session EXCEPT
                     !.pc = "done", !.db_user = db_user,
                     !.outcome = current_db_user_check(
                                    session.jwt_user, db_user,
                                    session.is_active, session.is_verified,
                                    session.required_roles)]
    /\ UNCHANGED <<config, users, next_user_id, orders, clock>>

\* UserService.delete(user) of another request: DELETE FROM users
UserDelete ==
    /\ \E user_id \in UserRowIds :
         /\ users[user_id].present
         /\ users' = [users EXCEPT ![user_id] = NoUser]
    /\ UNCHANGED <<config, next_user_id, session, orders, clock>>

\* the configurations the gates are run under: one per algorithm
GateConfigs ==
    {cfg \in Configs : cfg.lifetime # 0 /\ cfg.audience = NIMBUS_AUDIENCE}

\* the users table the gates are run against: user 5 in every state of its
\* flags and roles
StoredUsers ==
    {[NoUsers EXCEPT ![5] =
        [present |-> TRUE, email |-> "a@x.io",
         hashed_password |-> OutdatedHash(StrongPassword),
         is_active |-> a, is_verified |-> v, roles |-> r]] :
        a \in BOOLEAN, v \in BOOLEAN, r \in {{}, {"admin"}}}

OrdersInit ==
    /\ store = [i \in OrderIds |-> NoRow]
    /\ next_id = 1
    /\ cache = [k \in CacheKeys |-> <<>>]
    /\ events = <<>>
    /\ clock = 1
    /\ nreq = 0
    /\ proc = [p \in Procs |-> IdleProc]
    /\ hist = [i \in OrderIds |-> {}]
    /\ deleted = {}

GateInit ==
    /\ OrdersInit
    /\ config \in GateConfigs
    /\ users \in StoredUsers
    /\ next_user_id = 6
    /\ session = IdleSession

GateNext ==
    \/ CurrentJwtUser
    \/ CurrentDbUserAuthenticate
    \/ CurrentDbUserFetch
    \/ UserDelete

GateSpec == GateInit /\ [][GateNext]_vars

\* ------------------------------------------------- the token round trip
\* the tokens a request can carry that this deployment did not mint: every
\* header algorithm, signing key, aud, exp and user claim
TokenInputs ==
    {NoToken, Garbage}
    \cup {[present |-> TRUE, wellformed |-> TRUE, alg |-> alg,
           signed_with |-> key, aud |-> aud, exp |-> exp, user |-> user] :
            alg \in Algorithms, key \in Keys, aud \in Audiences,
            exp \in {NoTime} \cup 1..MaxTime,
            user \in {NoUserClaim, BadUserClaim,
                      UserClaim(CHOOSE s \in Snapshots :
                                   s.is_active /\ s.is_verified /\ s.roles = {})}}

\* AuthenticationBackend.login(strategy, user): strategy.write_token(user),
\* handed to the client by the transport
BackendLogin ==
    /\ SessionFree
    /\ \E user \in Snapshots :
         session' = [op |-> "bearer", pc |-> "minted", user |-> user,
                     token |-> write_token(config, user, clock),
                     verify_key |-> "", read_at |-> NoTime,
                     outcome |-> NoOutcome]
    /\ UNCHANGED <<config, users, next_user_id, orders, clock>>

\* a later request carries the minted token: _authenticate calls read_token
ReadBearer ==
    /\ session.pc = "minted"
    /\ session' = [session EXCEPT
                     !.pc = "done", !.verify_key = read_token_key(config),
                     !.read_at = clock,
                     !.outcome = authenticate(config, session.token, clock)]
    /\ UNCHANGED <<config, users, next_user_id, orders, clock>>

\* a request carries a token from elsewhere: _authenticate calls read_token
ReadToken ==
    /\ SessionFree
    /\ \E token \in TokenInputs :
         session' = [op |-> "read_token", pc |-> "done", user |-> NoIdentity,
                     token |-> token, verify_key |-> read_token_key(config),
                     read_at |-> clock,
                     outcome |-> authenticate(config, token, clock)]
    /\ UNCHANGED <<config, users, next_user_id, orders, clock>>

\* time passes (datetime.now(timezone.utc) in write_token and in jwt.decode)
Tick ==
    /\ clock < MaxTime
    /\ clock' = clock + 1
    /\ UNCHANGED <<identity, orders>>

TokenInit ==
    /\ OrdersInit
    /\ config \in Configs
    /\ users = NoUsers
    /\ next_user_id = 5
    /\ session = IdleSession

TokenNext ==
    \/ BackendLogin
    \/ ReadBearer
    \/ ReadToken
    \/ Tick

TokenSpec == TokenInit /\ [][TokenNext]_vars

\* ------------------------------------------- a token before and after logout
\* a destroy_token that revokes by replacing the signing secret
JWTStrategy_destroy_token_rotating(cfg, token) ==
    [raised |-> "none", strategy |-> [cfg EXCEPT !.secret_key = "rotated"]]

\* JWTStrategy.destroy_token(token): raises, and leaves the strategy as it is
JWTStrategy_destroy_token(cfg, token) ==
    [raised |-> "JWTStrategyDestroyTokenNotSupportedException", strategy |-> cfg]

\* a login response hands the client a token
BearerMint ==
    /\ SessionFree
    /\ \E user \in Snapshots :
         session' = [op |-> "bearer_logout", pc |-> "minted", user |-> user,
                     token |-> write_token(config, user, clock),
                     before |-> [raised |-> "none", user |-> NoIdentity],
                     after |-> [raised |-> "none", user |-> NoIdentity],
                     logout_at |-> NoTime, read_at |-> NoTime,
                     is_active |-> FALSE, is_verified |-> FALSE,
                     required_roles |-> NoRequiredRoles,
                     gate |-> NoOutcome, outcome |-> NoOutcome,
                     gate_after |-> NoOutcome]
    /\ UNCHANGED <<config, users, next_user_id, orders, clock>>

\* a request before the logout: strategy.read_token(token)
BearerRead ==
    /\ session.pc = "minted"
    /\ session' = [session EXCEPT
                     !.pc = "read",
                     !.before = read_token(config, session.token, clock)]
    /\ UNCHANGED <<config, users, next_user_id, orders, clock>>

\* route logout with the token: the gate current_jwt_user(is_active=True,
\* is_verified=requires_verification), then backend.logout(token), which
\* calls strategy.destroy_token and transport.get_logout_response
BearerLogout ==
    /\ session.pc = "read"
    /\ \E requires_verification \in BOOLEAN, transport_responds \in BOOLEAN :
         LET gate == current_jwt_user(config, session.token, clock, TRUE,
                                      requires_verification, NoRequiredRoles)
             d == JWTStrategy_destroy_token(config, session.token) IN
         IF gate.kind # "value"
         THEN /\ session' = [session EXCEPT !.pc = "done", !.gate = gate,
                                            !.outcome = gate]
              /\ UNCHANGED config
         ELSE /\ session' = [session EXCEPT
                               !.pc = "logged_out", !.gate = gate,
                               !.logout_at = clock,
                               !.outcome = AuthenticationBackend_logout(
                                              d.raised = "none",
                                              transport_responds)]
              /\ config' = d.strategy
    /\ UNCHANGED <<users, next_user_id, orders, clock>>

\* a request after the logout has returned: read_token, and a token gate
BearerReadAfter ==
    /\ session.pc = "logged_out"
    /\ \E is_active \in BOOLEAN, is_verified \in BOOLEAN,
          required_roles \in RequiredRolesInputs :
         session' = [session EXCEPT
                       !.pc = "done", !.read_at = clock,
                       !.is_active = is_active, !.is_verified = is_verified,
                       !.required_roles = required_roles,
                       !.after = read_token(config, session.token, clock),
                       !.gate_after =
                          current_jwt_user(config, session.token, clock,
                                           is_active, is_verified,
                                           required_roles)]
    /\ UNCHANGED <<config, users, next_user_id, orders, clock>>

LogoutInit ==
    /\ OrdersInit
    /\ config \in Configs
    /\ users = NoUsers
    /\ next_user_id = 5
    /\ session = IdleSession

LogoutNext ==
    \/ BearerMint
    \/ BearerRead
    \/ BearerLogout
    \/ BearerReadAfter
    \/ Tick

LogoutSpec == LogoutInit /\ [][LogoutNext]_vars

\* ------------------------------------------------- login, logout, create
\* route login up to the await of user_repository.update in authenticate
LoginAuthenticate ==
    /\ SessionFree
    /\ \E username \in Emails, password \in {StrongPassword, OtherPassword},
          requires_verification \in BOOLEAN :
         LET a == UserService_authenticate(users, username, password)
             s == [op |-> "login", pc |-> "done", username |-> username,
                   password |-> password,
                   requires_verification |-> requires_verification,
                   user |-> a.user, hash_calls |-> a.hash_calls,
                   verify_calls |-> a.verify_calls,
                   updated_password_hash |-> a.updated_password_hash,
                   outcome |-> IF a.raised # "none" THEN Unhandled(a.raised)
                               ELSE login(config, a.user,
                                          requires_verification, clock)] IN
         session' = IF a.raised = "none" /\ a.updated_password_hash # <<>>
                    THEN [s EXCEPT !.pc = "rehash", !.outcome = NoOutcome]
                    ELSE s
    /\ UNCHANGED <<config, users, next_user_id, orders, clock>>

\* user_repository.update(user, {"hashed_password": ...}) and the rest of
\* the route; the UPDATE of a row that is gone raises StaleDataError
LoginRehash ==
    /\ session.pc = "rehash"
    /\ LET user_id == session.user.id IN
       IF users[user_id].present
       THEN /\ users' = [users EXCEPT ![user_id].hashed_password =
                                         session.updated_password_hash[1]]
            /\ session' = [session EXCEPT
                             !.pc = "done",
                             !.user = UserModelOf(user_id, users'[user_id]),
                             !.outcome = login(config,
                                               UserModelOf(user_id,
                                                           users'[user_id]),
                                               session.requires_verification,
                                               clock)]
       ELSE /\ users' = users
            /\ session' = [session EXCEPT
                             !.pc = "done",
                             !.outcome = Unhandled("StaleDataError")]
    /\ UNCHANGED <<config, next_user_id, orders, clock>>

\* route logout: the gate of current_jwt_user(is_active=True), then
\* backend.logout(token) with a strategy and a transport that support the
\* call or raise their NotSupported exception
Logout ==
    /\ SessionFree
    /\ \E token \in GateTokens(config, clock), strategy_destroys \in BOOLEAN,
          transport_responds \in BOOLEAN :
         LET gate == current_jwt_user(config, token, clock, TRUE, FALSE,
                                      NoRequiredRoles) IN
         session' = [op |-> "logout", pc |-> "done", token |-> token,
                     strategy_destroys |-> strategy_destroys,
                     transport_responds |-> transport_responds,
                     gate |-> gate,
                     outcome |-> IF gate.kind # "value" THEN gate
                                 ELSE AuthenticationBackend_logout(
                                         strategy_destroys, transport_responds)]
    /\ UNCHANGED <<config, users, next_user_id, orders, clock>>

UserCreates ==
    [email : Emails, password : Passwords, is_active : FieldValues,
     is_verified : FieldValues, role_names : {{}, {"admin"}}]

\* UserService.create(user_create) up to the await of user_repository.create
UserCreateCheck ==
    /\ SessionFree
    /\ \E user_create \in UserCreates :
         LET existing_user == UserRepository_get_by_email(users,
                                                          user_create.email)
             s == [op |-> "create", pc |-> "done", user_create |-> user_create,
                   user |-> NoUserModel, outcome |-> NoOutcome] IN
         session' =
            IF ~validate_password(user_create.password)
            THEN [s EXCEPT !.outcome = Raises("InvalidPasswordException")]
            ELSE IF existing_user.raised # "none"
            THEN [s EXCEPT !.outcome = Raises(existing_user.raised)]
            ELSE IF existing_user.user.present
            THEN [s EXCEPT !.outcome = Raises("RecordAlreadyExistsException")]
            ELSE [s EXCEPT !.pc = "create_commit"]
    /\ UNCHANGED <<config, users, next_user_id, orders, clock>>

\* user_repository.create(user_dict): the INSERT under the unique constraint
\* of users.email, the commit and the refresh
UserCreateCommit ==
    /\ session.pc = "create_commit"
    /\ next_user_id \in UserRowIds
    /\ LET create_dict == UserDict(session.user_create) IN
       IF \E i \in UserRowIds :
             users[i].present /\ users[i].email = create_dict["email"]
       THEN /\ UNCHANGED <<users, next_user_id>>
            /\ session' = [session EXCEPT
                             !.pc = "done",
                             !.outcome = Raises("IntegrityError")]
       ELSE /\ users' = [users EXCEPT ![next_user_id] =
                                         UserRepository_create(create_dict)]
            /\ next_user_id' = next_user_id + 1
            /\ session' = [session EXCEPT
                             !.pc = "done",
                             !.user = UserModelOf(next_user_id,
                                                  users'[next_user_id]),
                             !.outcome = Yields(UserModelOf(next_user_id,
                                                            users'[next_user_id]),
                                                NoToken)]
    /\ UNCHANGED <<config, orders, clock>>

\* the users table the routes are run against: empty, or user 5 with a hash
\* of the current or of outdated parameters
AccountUsers ==
    {NoUsers} \cup StoredUsers
    \cup {[u EXCEPT ![5].hashed_password = PasswordHelper_hash(StrongPassword)] :
            u \in StoredUsers}

AccountInit ==
    /\ OrdersInit
    /\ config = DefaultConfig
    /\ users \in AccountUsers
    /\ next_user_id = 6
    /\ session = IdleSession

AccountNext ==
    \/ LoginAuthenticate
    \/ LoginRehash
    \/ Logout
    \/ UserCreateCheck
    \/ UserCreateCommit
    \/ UserDelete

AccountSpec == AccountInit /\ [][AccountNext]_vars

\* ----------------------------------------------- users: create and update
UserUpdates ==
    [email : {"unset"} \cup Emails,
     password : {UnsetValue("password"), OtherPassword, WeakPassword},
     is_active : FieldValues, is_verified : FieldValues,
     role_names : {UnsetValue("role_names"), {"admin"}}]

\* routes update_me and update_user: the dependency has loaded the user, and
\* UserService.update runs up to the await of user_repository.update
UserUpdateCheck ==
    /\ SessionFree
    /\ \E user_id \in UserRowIds, user_update \in UserUpdates :
         /\ users[user_id].present
         /\ LET user == UserModelOf(user_id, users[user_id])
                u == UserService_update(users, user,
                                        get_create_update_dict(user_update))
                s == [op |-> "update", pc |-> "update_commit", user |-> user,
                      user_update |-> user_update,
                      update_dict |-> u.dict, outcome |-> NoOutcome] IN
            session' = IF u.raised # "none"
                       THEN [s EXCEPT !.pc = "done",
                                      !.outcome = Raises(u.raised)]
                       ELSE s
    /\ UNCHANGED <<config, users, next_user_id, orders, clock>>

\* user_repository.update(user, validated_update_dict): the UPDATE under the
\* unique constraint of users.email, the commit and the refresh
UserUpdateCommit ==
    /\ session.pc = "update_commit"
    /\ LET user_id == session.user.id
           row == UserRepository_update(users[user_id], session.user,
                                        session.update_dict) IN
       IF ~users[user_id].present
       THEN /\ users' = users
            /\ session' = [session EXCEPT
                             !.pc = "done",
                             !.outcome = Raises("StaleDataError")]
       ELSE IF EmailTaken(users, user_id, row.email)
       THEN /\ users' = users
            /\ session' = [session EXCEPT
                             !.pc = "done",
                             !.outcome = Raises("IntegrityError")]
       ELSE /\ users' = [users EXCEPT ![user_id] = row]
            /\ session' = [session EXCEPT
                             !.pc = "done",
                             !.outcome = Yields(UserModelOf(user_id, row),
                                                NoToken)]
    /\ UNCHANGED <<config, next_user_id, orders, clock>>

\* UserService.create of another request, from its get_by_email to its
\* commit, while the request of the session awaits
OtherUserCreate ==
    /\ next_user_id \in UserRowIds
    /\ \E email \in Emails :
         LET user_create == [email |-> email, password |-> StrongPassword,
                             is_active |-> "unset", is_verified |-> "unset",
                             role_names |-> {}] IN
         /\ validate_password(user_create.password)
         /\ ~UserRepository_get_by_email(users, email).user.present
         /\ UserRepository_get_by_email(users, email).raised = "none"
         /\ ~EmailTaken(users, 0, email)
         /\ users' = [users EXCEPT ![next_user_id] =
                                      UserRepository_create(UserDict(user_create))]
         /\ next_user_id' = next_user_id + 1
    /\ UNCHANGED <<config, session, orders, clock>>

\* the users table the requests start from: empty, or user 5 alone
UsersInit ==
    /\ OrdersInit
    /\ config = DefaultConfig
    /\ \/ users = NoUsers /\ next_user_id = 5
       \/ users \in StoredUsers /\ next_user_id = 6
    /\ session = IdleSession

UsersNext ==
    \/ UserCreateCheck
    \/ UserCreateCommit
    \/ UserUpdateCheck
    \/ UserUpdateCommit
    \/ OtherUserCreate
    \/ UserDelete

UsersSpec == UsersInit /\ [][UsersNext]_vars

\* ------------------------------------------------ users: the verified flag
\* a verify that marks the user of the token as verified
UserService_verify_implemented(us, user_id) ==
    [raised |-> "none",
     users |-> IF user_id \in DOMAIN us /\ us[user_id].present
               THEN [us EXCEPT ![user_id].is_verified = TRUE] ELSE us]

\* UserService.verify(token), the token naming a user: raises
UserService_verify(us, user_id) ==
    [raised |-> "NotImplementedError", users |-> us]

\* UserService.request_verify(user): raises
UserService_request_verify(us, user_id) ==
    [raised |-> "NotImplementedError", users |-> us]

\* a call of UserService.verify
Verify ==
    /\ SessionFree
    /\ \E user_id \in UserRowIds :
         LET r == UserService_verify(users, user_id) IN
         /\ users' = r.users
         /\ session' = [op |-> "verify", pc |-> "done", user_id |-> user_id,
                        outcome |-> IF r.raised # "none" THEN Raises(r.raised)
                                    ELSE NoOutcome]
    /\ UNCHANGED <<config, next_user_id, orders, clock>>

\* a call of UserService.request_verify
RequestVerify ==
    /\ SessionFree
    /\ \E user_id \in UserRowIds :
         LET r == UserService_request_verify(users, user_id) IN
         /\ users[user_id].present
         /\ users' = r.users
         /\ session' = [op |-> "request_verify", pc |-> "done",
                        user_id |-> user_id,
                        outcome |-> IF r.raised # "none" THEN Raises(r.raised)
                                    ELSE NoOutcome]
    /\ UNCHANGED <<config, next_user_id, orders, clock>>

\* the request has been answered; the client sends the next one
NextRequest ==
    /\ session.pc = "done"
    /\ session' = IdleSession
    /\ UNCHANGED <<config, users, next_user_id, orders, clock>>

VerifiedInit ==
    /\ OrdersInit
    /\ config = DefaultConfig
    /\ users \in StoredUsers
    /\ next_user_id = 6
    /\ session = IdleSession

VerifiedNext ==
    \/ LoginAuthenticate
    \/ LoginRehash
    \/ UserCreateCheck
    \/ UserCreateCommit
    \/ UserUpdateCheck
    \/ UserUpdateCommit
    \/ UserDelete
    \/ Verify
    \/ RequestVerify
    \/ NextRequest

VerifiedSpec == VerifiedInit /\ [][VerifiedNext]_vars

\* ------------------------------- request-verify-token and forgot-password
HTTP_202_ACCEPTED == 202

\* UserService.forgot_password(user): raises
UserService_forgot_password(us, user_id) ==
    [raised |-> "NotImplementedError", users |-> us]

\* how a service with the flow implemented would end the call: returning,
\* or raising an exception the routes name
FlowOutcomes ==
    {"none", "UserInactiveException", "UserAlreadyVerifiedException"}

\* route request_verify_token: one try around get_by_email and
\* request_verify; the route returns None under status_code 202
request_verify_token(existing_user, flow) ==
    IF existing_user.raised # "none" THEN Unhandled(existing_user.raised)
    ELSE IF ~existing_user.user.present
    THEN Response(HTTP_202_ACCEPTED, NoToken)
    ELSE IF flow \in {"none", "UserInactiveException",
                      "UserAlreadyVerifiedException", "NotImplementedError"}
    THEN Response(HTTP_202_ACCEPTED, NoToken)
    ELSE Unhandled(flow)

\* route forgot_password: a try around get_by_email, then one around
\* forgot_password; the route returns None under status_code 202
forgot_password(existing_user, flow) ==
    IF existing_user.raised # "none" THEN Unhandled(existing_user.raised)
    ELSE IF ~existing_user.user.present
    THEN Response(HTTP_202_ACCEPTED, NoToken)
    ELSE IF flow \in {"none", "UserInactiveException", "NotImplementedError"}
    THEN Response(HTTP_202_ACCEPTED, NoToken)
    ELSE Unhandled(flow)

\* POST /request-verify-token with an email
RouteRequestVerifyToken ==
    /\ SessionFree
    /\ \E email \in Emails :
         LET existing_user == UserRepository_get_by_email(users, email) IN
         \E flow \in FlowOutcomes
                \cup {UserService_request_verify(
                         users, existing_user.user.id).raised} :
         session' = [op |-> "request_verify_token", pc |-> "done",
                        email |-> email, flow |-> flow,
                        outcome |-> request_verify_token(existing_user, flow)]
    /\ UNCHANGED <<config, users, next_user_id, orders, clock>>

\* POST /forgot-password with an email
RouteForgotPassword ==
    /\ SessionFree
    /\ \E email \in Emails :
         LET existing_user == UserRepository_get_by_email(users, email) IN
         \E flow \in (FlowOutcomes \ {"UserAlreadyVerifiedException"})
                \cup {UserService_forgot_password(
                         users, existing_user.user.id).raised} :
         session' = [op |-> "forgot_password", pc |-> "done",
                        email |-> email, flow |-> flow,
                        outcome |-> forgot_password(existing_user, flow)]
    /\ UNCHANGED <<config, users, next_user_id, orders, clock>>

AcceptedNext ==
    \/ UserCreateCheck
    \/ UserCreateCommit
    \/ OtherUserCreate
    \/ NextRequest
    \/ RouteRequestVerifyToken
    \/ RouteForgotPassword

AcceptedSpec == UsersInit /\ [][AcceptedNext]_vars

\* --------------------------------------------------- password validation
MaxTail == 4         \* free characters of a password input

\* k lowercase letters
Pad(k) == [i \in 1..k |-> "l"]

\* the passwords validate_password is applied to: up to MaxTail characters
\* of any class before or after lowercase letters, the lengths on both sides
\* of the minimum
PasswordInputs ==
    LET tails == UNION {[1..n -> Characters] : n \in 0..MaxTail}
        pads == {Pad(k) : k \in (PASSWORD_MIN_LENGTH - MaxTail - 1)
                                   ..(PASSWORD_MIN_LENGTH - MaxTail + 1)} IN
    {pad \o tail : pad \in pads, tail \in tails}
    \cup {tail \o pad : pad \in pads, tail \in tails}

\* UserService.validate_password(password)
ValidatePassword ==
    /\ SessionFree
    /\ \E password \in PasswordInputs :
         session' = [op |-> "validate_password", pc |-> "done",
                     password |-> password,
                     outcome |-> IF validate_password(password)
                                 THEN Yields(NoIdentity, NoToken)
                                 ELSE Raises("InvalidPasswordException")]
    /\ UNCHANGED <<config, users, next_user_id, orders, clock>>

PasswordInit ==
    /\ OrdersInit
    /\ config = DefaultConfig
    /\ users = NoUsers
    /\ next_user_id = 5
    /\ session = IdleSession

PasswordNext == ValidatePassword

PasswordSpec == PasswordInit /\ [][PasswordNext]_vars

\* ------------------------------------------------------- the list query
FilterOrderIds == {1, 2}
FilterUserIds == {5, 6}
Prices == {10, 20, 30}

\* OrderFilter: a field left out is None (<<>>); min_price and max_price
\* are greater than 0
NoFilterValue == <<>>
OrderFilters ==
    [status : {NoFilterValue} \cup {<<s>> : s \in OrderStatus},
     min_price : {NoFilterValue, <<20>>},
     max_price : {NoFilterValue, <<20>>}]

\* a list query that does not look at deleted_at
OrderRepository_get_filtered_with_deleted(st, user_id, order_filter) ==
    {ModelOf(i, st[i]) :
       i \in {j \in DOMAIN st :
                /\ st[j].present
                /\ st[j].user_id = user_id
                /\ order_filter.status # NoFilterValue
                     => st[j].status = order_filter.status[1]
                /\ order_filter.min_price # NoFilterValue
                     => st[j].total_price >= order_filter.min_price[1]
                /\ order_filter.max_price # NoFilterValue
                     => st[j].total_price <= order_filter.max_price[1]}}

\* OrderDBRepository.get_filtered: SELECT ... WHERE user_id = :user_id AND
\* deleted_at IS NULL, and one more condition for each field of the filter
\* that is given
OrderRepository_get_filtered(st, user_id, order_filter) ==
    {ModelOf(i, st[i]) :
       i \in {j \in DOMAIN st :
                /\ st[j].present
                /\ st[j].user_id = user_id
                /\ st[j].deleted_at = NoTime
                /\ order_filter.status # NoFilterValue
                     => st[j].status = order_filter.status[1]
                /\ order_filter.min_price # NoFilterValue
                     => st[j].total_price >= order_filter.min_price[1]
                /\ order_filter.max_price # NoFilterValue
                     => st[j].total_price <= order_filter.max_price[1]}}

\* OrderService.get_filtered(user_id, order_filter): the repository query
\* and OrderSchema.model_validate of every model
GetFiltered(p) ==
    /\ \A q \in Procs : proc[q].pc = "idle"
    /\ \E user_id \in FilterUserIds, order_filter \in OrderFilters :
         LET order_models == OrderRepository_get_filtered(store, user_id,
                                                          order_filter) IN
         proc' = [proc EXCEPT ![p] =
                    [pc |-> "done", op |-> "get_filtered",
                     user_id |-> user_id, order_filter |-> order_filter,
                     result |-> [kind |-> "ok",
                                 value |-> {OrderSchemaOf(om) :
                                              om \in order_models}]]]
    /\ nreq' = nreq + 1
    /\ UNCHANGED <<store, next_id, cache, events, clock, hist, deleted>>
    /\ UNCHANGED identity

\* the rows the list query runs against
FilterRows ==
    {NoRow}
    \cup {[NewRow(user_id, total_price, {1}) EXCEPT
             !.status = status, !.deleted_at = deleted_at] :
            user_id \in FilterUserIds, total_price \in Prices,
            status \in OrderStatus, deleted_at \in {NoTime, 1}}

FilterInit ==
    /\ store \in [FilterOrderIds -> FilterRows]
    /\ next_id = 3
    /\ cache \in [CacheKeys ->
                    {<<>>, <<JsonDumps(OrderSchemaOf(ModelOf(1, NewRow(5, 10, {1}))))>>}]
    /\ events = <<>>
    /\ clock = 2
    /\ nreq = 0
    /\ proc = [p \in Procs |-> IdleProc]
    /\ hist = [i \in OrderIds |-> {}]
    /\ deleted = {}
    /\ config = DefaultConfig
    /\ users = NoUsers
    /\ next_user_id = 5
    /\ session = IdleSession

FilterNext == \E p \in Procs : GetFiltered(p)

FilterSpec == FilterInit /\ [][FilterNext]_vars
\* ------------------------------------------------------------ properties
OrderKey(order_id) == generate_key(CACHE_PREFIX, order_id)

\* the row is visible to OrderRepository.get_by_id
Live(row) == row.present /\ row.deleted_at = NoTime

UpdateStep(p) ==
    \/ UpdateFetch(p) \/ UpdateCommit(p) \/ UpdateRefresh(p)
    \/ UpdateEmit(p) \/ UpdateCacheSet(p)

\* what a get_by_id that runs with no other request in between returns
get_by_id_alone(c, st, order_id) ==
    LET cached_data == CacheRepository_get(c, CACHE_PREFIX, order_id)
        order_model == OrderRepository_get_by_id(st, order_id) IN
    IF cached_data # <<>> THEN Returned(JsonLoads(cached_data[1]))
    ELSE IF ~order_model.present THEN Raised("RecordNotFound")
    ELSE Returned(OrderSchemaOf(order_model))

\* C1: update fails with OrderIsConfirmed exactly when the row it loads from
\* the store has status CONFIRMED, and the step that fails so leaves the
\* store, the cache and the published events as they were.
C1_ConfirmedRejected ==
    [][\A p \in Procs :
         /\ UpdateFetch(p) =>
              LET row == store[proc'[p].order_id] IN
              /\ (proc'[p].result.kind = "OrderIsConfirmed")
                   <=> (Live(row) /\ row.status = "CONFIRMED")
              /\ proc'[p].result.kind = "OrderIsConfirmed"
                   => /\ store' = store
                      /\ cache' = cache
                      /\ events' = events
                      /\ proc'[p].pc = "done"
         /\ (UpdateStep(p) /\ ~UpdateFetch(p))
              => proc'[p].result.kind # "OrderIsConfirmed"]_vars

C1_Witness ==
    \E p \in Procs :
       /\ proc[p].op = "update"
       /\ proc[p].pc = "done"
       /\ proc[p].result.kind = "OrderIsConfirmed"
       /\ store[proc[p].order_id].status = "CONFIRMED"

\* C2 as stated: once the stored status is CONFIRMED no step of any update,
\* concurrent ones included, changes the stored row.
C2_ConfirmedImmutable ==
    [][\A p \in Procs :
         (UpdateStep(p) /\ store[proc'[p].order_id].present
                        /\ store[proc'[p].order_id].status = "CONFIRMED")
            => store' = store]_vars

\* C2 amended: an update that loads the row when its stored status is
\* CONFIRMED ends at once and never commits; only an update that loaded the
\* row before it became CONFIRMED can still write to it.
C2_ConfirmedImmutableAfterLoad ==
    \A p \in Procs :
       (proc[p].op = "update" /\ proc[p].confirmed_at_load)
          => /\ proc[p].pc = "done"
             /\ ~proc[p].committed
             /\ proc[p].result.kind = "OrderIsConfirmed"

C2_Witness ==
    \E p, q \in Procs :
       /\ p # q
       /\ proc[p].op = "update" /\ proc[p].pc = "done"
       /\ proc[p].result.kind = "ok" /\ proc[p].result.value.status = "CONFIRMED"
       /\ proc[q].op = "update" /\ proc[q].pc = "done"
       /\ proc[q].confirmed_at_load

\* C3: a get_by_id called after a soft_delete of the id has ended never
\* returns the order: it raises RecordNotFound.
C3_SoftDeletedNotRead ==
    \A p \in Procs :
       (proc[p].op = "get_by_id" /\ proc[p].pc = "done"
          /\ proc[p].after_delete /\ proc[p].result.kind # "Cancelled")
          => proc[p].result.kind = "RecordNotFound"

\* C4: soft_delete and hard_delete, having written the store, end with the
\* cache holding no entry for the id.
C4_DeleteEvictsCache ==
    [][\A p \in Procs :
         (SoftDeleteCacheDelete(p) \/ HardDeleteCacheDelete(p))
            => /\ proc[p].committed
               /\ cache'[OrderKey(proc[p].order_id)] = <<>>]_vars

\* C5: when create or update returns, the cache holds the returned order, and
\* a get_by_id that finds a cache entry returns the order it decodes from the
\* entry without reading the store; so the next get_by_id, with nothing in
\* between, returns the entity just written.
C5_WriteThenRead ==
    [][\A p \in Procs :
         /\ ((CreateCacheSet(p) \/ UpdateCacheSet(p))
               /\ proc'[p].result.kind = "ok")
              => /\ cache'[OrderKey(proc[p].order_id)] # <<>>
                 /\ get_by_id_alone(cache', store', proc[p].order_id)
                      = Returned(proc'[p].result.value)
                 /\ proc'[p].result.value = OrderSchemaOf(proc[p].order_model)
         /\ (GetByIdCache(p) /\ cache[OrderKey(proc'[p].order_id)] # <<>>)
              => /\ proc'[p].pc = "done"
                 /\ proc'[p].store_reads = 0
                 /\ proc'[p].result
                      = get_by_id_alone(cache, store, proc'[p].order_id)]_vars

C5_Witness ==
    \E p, q \in Procs :
       /\ proc[p].op = "update" /\ proc[p].pc = "done"
       /\ proc[p].result.kind = "ok"
       /\ proc[p].result.value.status = "CANCELLED"
       /\ proc[q].op = "get_by_id" /\ proc[q].pc = "done"
       /\ proc[q].store_reads = 0
       /\ proc[q].result = proc[p].result

\* C6: an update that returns has published one event, carrying the status it
\* loaded and the status the store held after its commit, when the two
\* differ, and none when they are equal; an update that is rejected
\* publishes none; nothing else publishes.
C6_StatusEvent ==
    [][/\ \A p \in Procs :
            /\ (UpdateRefresh(p) /\ proc'[p].pc # "done")
                 => /\ proc'[p].order_model.status
                         = store[proc[p].order_id].status
                    /\ (proc'[p].pc = "u_emit")
                         <=> (proc[p].original_status
                                # store[proc[p].order_id].status)
            /\ (UpdateEmit(p) /\ events' # events)
                 => /\ proc[p].published = 0
                    /\ events' = Append(events,
                         [order_id |-> proc[p].order_id,
                          old_status |->
                             OrderStatusValue(proc[p].original_status),
                          new_status |->
                             OrderStatusValue(proc[p].order_model.status)])
            /\ (UpdateCacheSet(p) /\ proc'[p].result.kind = "ok")
                 => proc'[p].published
                      = IF proc[p].original_status
                             # proc'[p].result.value.status
                        THEN 1 ELSE 0
            /\ (UpdateFetch(p) /\ proc'[p].pc = "done")
                 => (events' = events /\ proc'[p].published = 0)
       /\ events' # events => \E p \in Procs : UpdateEmit(p)]_vars

C6_Witness ==
    /\ events = <<[order_id |-> 1, old_status |-> "pending",
                   new_status |-> "confirmed"]>>
    /\ \E p \in Procs :
          /\ proc[p].op = "update" /\ proc[p].pc = "done"
          /\ proc[p].result.kind = "ok" /\ proc[p].published = 1

\* C7: the step of update in which the event is not sent, like every step of
\* update after its commit, leaves the store as the commit left it.
C7_NoRollback ==
    [][\A p \in Procs :
         /\ (UpdateEmit(p) /\ proc'[p].result.kind = "KafkaError")
              => (proc[p].committed /\ store' = store)
         /\ (UpdateRefresh(p) \/ UpdateEmit(p) \/ UpdateCacheSet(p))
              => store' = store]_vars

C7_Witness ==
    \E p \in Procs :
       /\ proc[p].op = "update" /\ proc[p].pc = "done"
       /\ proc[p].result.kind = "KafkaError"
       /\ proc[p].committed
       /\ store[proc[p].order_id].status = "CANCELLED"

\* C8: an update whose event is not sent has written the cache all the same:
\* the cache write comes before the emission.
C8_CacheBeforeEvent ==
    \A p \in Procs :
       /\ proc[p].pc = "u_emit" => proc[p].cache_written
       /\ (proc[p].op = "update" /\ proc[p].pc = "done"
             /\ proc[p].result.kind = "KafkaError") => proc[p].cache_written

\* C9: an order held in the cache equals a state of its row that has been
\* committed to the store.
C9_CacheNeverAhead ==
    \A i \in OrderIds :
       cache[OrderKey(i)] # <<>>
          => \E row \in hist[i] :
                JsonLoads(cache[OrderKey(i)][1]) = OrderSchemaOf(ModelOf(i, row))

C9_Witness ==
    \E i \in OrderIds :
       /\ cache[OrderKey(i)] # <<>>
       /\ store[i].present
       /\ store[i].status = "CONFIRMED"
       /\ JsonLoads(cache[OrderKey(i)][1]).status = "PENDING"

\* the request is a create or an update cancelled between its store commit
\* and its cache write
InterruptedAfterCommit(p) ==
    /\ Cancel(p)
    /\ proc[p].op \in {"create", "update"}
    /\ proc[p].committed

\* what get_by_id returns for the row as the store holds it
CommittedState(st, order_id) ==
    IF Live(st[order_id]) THEN Returned(OrderSchemaOf(ModelOf(order_id, st[order_id])))
    ELSE Raised("RecordNotFound")

\* C10 as stated: after a create or update is interrupted between its commit
\* and its cache write, the next get_by_id returns the state in the store
\* (stated for a live order and with no other request in flight).
C10_InterruptionHeals ==
    [][\A p \in Procs :
         (/\ InterruptedAfterCommit(p)
          /\ Live(store[proc[p].order_id])
          /\ \A q \in Procs \ {p} : proc[q].pc \in {"idle", "done"})
            => get_by_id_alone(cache', store', proc[p].order_id)
                 = CommittedState(store', proc[p].order_id)]_vars

\* C10 amended: the interruption leaves the store and the cache entry as they
\* were; the next get_by_id returns the state in the store when the cache has
\* no entry for the id, and the cached, possibly older, order when it has one.
C10_InterruptionKeepsCache ==
    [][/\ \A p \in Procs :
         InterruptedAfterCommit(p)
            => /\ store' = store
               /\ cache' = cache
               /\ get_by_id_alone(cache', store', proc[p].order_id)
                    = IF cache[OrderKey(proc[p].order_id)] = <<>>
                      THEN CommittedState(store, proc[p].order_id)
                      ELSE Returned(JsonLoads(cache[OrderKey(proc[p].order_id)][1]))
       /\ \A p \in Procs :
            \* the read that misses loads the row of the store and caches it
            /\ GetByIdFetch(p)
                 => IF Live(store[proc[p].order_id])
                    THEN /\ proc'[p].pc = "g_cache_set"
                         /\ proc'[p].order_model
                              = ModelOf(proc[p].order_id, store[proc[p].order_id])
                    ELSE proc'[p].result = Raised("RecordNotFound")
            /\ (GetByIdCacheSet(p) /\ proc'[p].result.kind = "ok")
                 => /\ proc'[p].result.value = OrderSchemaOf(proc[p].order_model)
                    /\ get_by_id_alone(cache', store', proc[p].order_id)
                         = proc'[p].result]_vars

C10_Witness ==
    \E p, q \in Procs :
       /\ proc[p].op = "update" /\ proc[p].pc = "done"
       /\ proc[p].result.kind = "Cancelled" /\ proc[p].committed
       /\ proc[q].op = "get_by_id" /\ proc[q].pc = "done"
       /\ proc[q].result.kind = "ok"
       /\ proc[q].store_reads = 0
       /\ proc[q].result.value.status # store[proc[q].order_id].status

\* C11: get_by_id returns the cached order, reading no row, when the cache
\* has an entry for the id; when it has none it reads the row with deleted_at
\* NULL, ends with RecordNotFound and writes no entry when there is no such
\* row, and otherwise writes the order it loaded to the cache and returns it.
C11_ReadThrough ==
    [][\A p \in Procs :
         /\ GetByIdCache(p) =>
              LET cached_data == cache[OrderKey(proc'[p].order_id)] IN
              /\ cache' = cache /\ store' = store
              /\ proc'[p].store_reads = 0
              /\ IF cached_data # <<>>
                 THEN /\ proc'[p].pc = "done"
                      /\ proc'[p].result = Returned(JsonLoads(cached_data[1]))
                 ELSE /\ proc'[p].pc = "g_fetch"
                      /\ proc'[p].result = NoResult
         /\ GetByIdFetch(p) =>
              LET row == store[proc[p].order_id] IN
              /\ cache' = cache /\ store' = store
              /\ proc'[p].store_reads = 1
              /\ IF Live(row)
                 THEN /\ proc'[p].pc = "g_cache_set"
                      /\ proc'[p].order_model = ModelOf(proc[p].order_id, row)
                 ELSE /\ proc'[p].pc = "done"
                      /\ proc'[p].result = Raised("RecordNotFound")
                      /\ ~proc'[p].cache_written
         /\ GetByIdCacheSet(p) =>
              /\ store' = store
              /\ cache'[OrderKey(proc[p].order_id)]
                   = <<JsonDumps(OrderSchemaOf(proc[p].order_model))>>
              /\ proc'[p].pc = "done"
              /\ proc'[p].cache_written
              /\ proc'[p].result
                   = Returned(OrderSchemaOf(proc[p].order_model))]_vars

C11_Witness ==
    \E p, q \in Procs :
       /\ proc[p].op = "get_by_id" /\ proc[p].pc = "done"
       /\ proc[p].result.kind = "ok"
       /\ proc[p].store_reads = 1 /\ proc[p].cache_written
       /\ cache[OrderKey(proc[p].order_id)] # <<>>
       /\ proc[q].op = "get_by_id" /\ proc[q].pc = "done"
       /\ proc[q].result.kind = "RecordNotFound"
       /\ proc[q].store_reads = 1 /\ ~proc[q].cache_written

\* C12: the CONFIRMED check of update is made on the status of the row it
\* reads from the store, whatever the cache shows: with the row CONFIRMED the
\* update is rejected even when the cache shows another status, and with the
\* row live in another status the update goes on to commit its changes to
\* that row even when the cache shows CONFIRMED.
C12_StoreStatusDecides ==
    [][\A p \in Procs :
         /\ UpdateFetch(p) =>
              LET row == store[proc'[p].order_id] IN
              /\ proc'[p].store_reads = 1
              /\ proc'[p].cache_differs_at_load
                   = (/\ Live(row)
                      /\ cache[OrderKey(proc'[p].order_id)] # <<>>
                      /\ (CachedStatus(cache, proc'[p].order_id) = "CONFIRMED")
                           # (row.status = "CONFIRMED"))
              /\ (Live(row) /\ row.status = "CONFIRMED")
                   => /\ proc'[p].pc = "done"
                      /\ proc'[p].result = Raised("OrderIsConfirmed")
              /\ (Live(row) /\ row.status # "CONFIRMED")
                   => /\ proc'[p].pc = "u_commit"
                      /\ proc'[p].original_status = row.status
                      /\ proc'[p].order_model
                           = ModelOf(proc'[p].order_id, row)
         /\ (UpdateCommit(p) /\ proc'[p].pc # "done")
              => /\ proc'[p].committed
                 /\ store'[proc[p].order_id]
                      = OrderRepository_update(store[proc[p].order_id],
                                               proc[p].order_model,
                                               proc[p].data).row]_vars

C12_Witness ==
    \E p \in Procs :
       /\ proc[p].op = "update" /\ proc[p].pc = "done"
       /\ proc[p].cache_differs_at_load
       /\ ~proc[p].confirmed_at_load
       /\ proc[p].result.kind = "ok" /\ proc[p].committed

\* the role names a gate requires, as a set; none for None and for []
RequiredRoleSet(required_roles) ==
    IF ~required_roles.given THEN {}
    ELSE {required_roles.names[i] : i \in 1..Len(required_roles.names)}

\* the outcome is an HTTPException with this status code
Refused(outcome, status) ==
    outcome.kind = "http_exception" /\ outcome.status = status

\* the decision of a gate on a user: 401 when activity is required and the
\* user is inactive, else 403 when verification is required and the user is
\* unverified, else 403 when a required role name is not among the user's,
\* else the value
GateDecides(outcome, user, is_active, is_verified, required_roles, value) ==
    IF is_active /\ ~user.is_active
    THEN Refused(outcome, HTTP_401_UNAUTHORIZED)
    ELSE IF is_verified /\ ~user.is_verified
    THEN Refused(outcome, HTTP_403_FORBIDDEN)
    ELSE IF ~(RequiredRoleSet(required_roles) \subseteq user.roles)
    THEN Refused(outcome, HTTP_403_FORBIDDEN)
    ELSE outcome = value

\* C13: the dependency of current_jwt_user ends with 401 when the request has
\* no token or read_token returns no identity, and otherwise decides on the
\* identity read_token returns: 401 for a required activity, then 403 for a
\* required verification, then 403 for a missing required role (the names
\* taken as a set, none for None and []), else the identity and the token.
C13_TokenGate ==
    [][CurrentJwtUser =>
         LET token == session'.token
             r == read_token(config, token, clock) IN
         /\ ~token.present
              => Refused(session'.outcome, HTTP_401_UNAUTHORIZED)
         /\ (token.present /\ r.raised = "none")
              => IF ~r.user.present
                 THEN Refused(session'.outcome, HTTP_401_UNAUTHORIZED)
                 ELSE GateDecides(session'.outcome, r.user,
                                  session'.is_active, session'.is_verified,
                                  session'.required_roles,
                                  Yields(r.user, token))]_vars

C13_Witness ==
    /\ session.op = "current_jwt_user" /\ session.pc = "done"
    /\ session.token.user.kind = "user"
    /\ ~session.token.user.user.is_active
    /\ ~session.token.user.user.is_verified
    /\ session.token.user.user.roles = {"admin"}
    /\ read_token(config, session.token, clock).user.present
    /\ session.is_active /\ session.is_verified
    /\ session.required_roles = RequiredRoles(<<"user", "admin">>)
    /\ Refused(session.outcome, HTTP_401_UNAUTHORIZED)

\* C14: the dependency of current_db_user ends with 401 when the request has
\* no token, when read_token returns no identity, and when the users table
\* has no row with the id of the token; otherwise its decision is the gate's
\* decision on the row it fetches, the same for every snapshot a token with
\* that id can embed.
C14_StoreGate ==
    [][/\ CurrentDbUserAuthenticate =>
            LET token == session'.token
                r == read_token(config, token, clock) IN
            /\ ~token.present
                 => Refused(session'.outcome, HTTP_401_UNAUTHORIZED)
            /\ (token.present /\ r.raised = "none" /\ ~r.user.present)
                 => Refused(session'.outcome, HTTP_401_UNAUTHORIZED)
            /\ (token.present /\ r.raised = "none" /\ r.user.present)
                 => (session'.pc = "db_fetch" /\ session'.jwt_user = r.user)
       /\ CurrentDbUserFetch =>
            LET user_id == session.jwt_user.id
                row == users[user_id] IN
            /\ session'.pc = "done"
            /\ IF ~row.present
               THEN Refused(session'.outcome, HTTP_401_UNAUTHORIZED)
               ELSE /\ GateDecides(session'.outcome, row, session.is_active,
                                   session.is_verified, session.required_roles,
                                   Yields(UserModelOf(user_id, row), NoToken))
                    /\ \A s \in Snapshots :
                          s.id = user_id
                             => session'.outcome
                                  = current_db_user_check(
                                       s, UserModelOf(user_id, row),
                                       session.is_active, session.is_verified,
                                       session.required_roles)]_vars

C14_Witness ==
    /\ session.op = "current_db_user" /\ session.pc = "done"
    /\ session.is_active /\ session.is_verified
    /\ session.required_roles = RequiredRoles(<<"admin">>)
    /\ ~session.jwt_user.is_active /\ ~session.jwt_user.is_verified
    /\ session.jwt_user.roles = {}
    /\ session.outcome.kind = "value"
    /\ session.outcome.user = UserModelOf(5, users[5])

\* C15: a request whose token read_token has read ends with the identity only
\* if the token is a JWT whose algorithm is the configured one, whose
\* signature verifies under the configured public key, whose exp, when
\* present, is not in the past, whose aud matches the configured audience and
\* whose payload carries a user; every other request with a token ends with
\* the one outcome 401.
C15_ValidOrUnauthorized ==
    (session.op \in {"bearer", "read_token"} /\ session.pc = "done")
       => LET token == session.token IN
          IF session.outcome.kind = "value"
          THEN /\ token.wellformed
               /\ token.alg = config.algorithm
               /\ SignatureVerifies(token, config.public_key)
               /\ (token.exp = NoTime \/ token.exp > session.read_at)
               /\ AudienceMatches(token.aud, config.audience)
               /\ token.user.kind = "user"
               /\ session.outcome.user = token.user.user
          ELSE Refused(session.outcome, HTTP_401_UNAUTHORIZED)

\* C16: a token of write_token(user), read before its exp, is accepted by
\* read_token with the snapshot of the user, under the symmetric and under
\* the asymmetric configurations, and the key it is verified with is the
\* configured public key.
C16_RoundTrip ==
    (/\ session.op = "bearer" /\ session.pc = "done"
     /\ (session.token.exp = NoTime \/ session.read_at < session.token.exp))
       => /\ session.outcome = Yields(session.user, session.token)
          /\ session.verify_key = config.public_key

\* the rows of the users table whose email is this one, letter case aside
RowsOfEmail(us, email) ==
    {i \in DOMAIN us : us[i].present /\ Lower(us[i].email) = Lower(email)}

\* C17: a login with an email of no row and a login with the email of a row
\* and another password than the row's both end with HTTP 400
\* login_bad_credentials and no user; the first calls password_helper.hash
\* once and verify_and_update never, the second verify_and_update once and
\* hash never.
C17_SameFailure ==
    [][LoginAuthenticate =>
         LET rows == RowsOfEmail(users, session'.username)
             failed == /\ session'.pc = "done"
                       /\ ~session'.user.present
                       /\ session'.outcome
                            = HTTPException(HTTP_400_BAD_REQUEST,
                                            LOGIN_BAD_CREDENTIALS) IN
         /\ rows = {}
              => /\ failed
                 /\ session'.hash_calls = 1 /\ session'.verify_calls = 0
         /\ \A i \in rows :
              (rows = {i}
               /\ users[i].hashed_password.password # session'.password)
                 => /\ failed
                    /\ session'.hash_calls = 0 /\ session'.verify_calls = 1]_vars

C17_Witness ==
    /\ session.op = "login" /\ session.pc = "done"
    /\ session.username = "A@x.io" /\ session.password = OtherPassword
    /\ users[5].present /\ users[5].email = "a@x.io"
    /\ users[5].hashed_password.password = StrongPassword
    /\ users[5].is_active /\ users[5].is_verified
    /\ session.verify_calls = 1 /\ session.hash_calls = 0
    /\ session.outcome = HTTPException(HTTP_400_BAD_REQUEST,
                                       LOGIN_BAD_CREDENTIALS)

\* C18: a logout that has passed its gate ends with a response, whether
\* destroy_token and get_logout_response return or raise their NotSupported
\* exception: the response of the transport when it has one, an empty 204
\* otherwise.
C18_LogoutNeverRaises ==
    (session.op = "logout" /\ session.pc = "done"
     /\ session.gate.kind = "value")
       => /\ session.outcome.kind = "response"
          /\ session.transport_responds
               => session.outcome.detail = "transport"
          /\ ~session.transport_responds
               => session.outcome = Response(HTTP_204_NO_CONTENT, NoToken)

C18_Witness ==
    /\ session.op = "logout" /\ session.pc = "done"
    /\ session.gate.kind = "value"
    /\ ~session.strategy_destroys /\ ~session.transport_responds
    /\ session.outcome = Response(HTTP_204_NO_CONTENT, NoToken)

\* route update_order on the result of order_service.update: the order it
\* returns is the 200 response; in the two except branches the route returns
\* the HTTPException instead of raising it, and the returned object fails the
\* validation against response_model=OrderSchema (ResponseValidationError);
\* any other exception leaves the route
update_order(result) ==
    CASE result.kind = "ok" -> Response(HTTP_200_OK, NoToken)
      [] result.kind \in {"OrderIsConfirmed", "RecordNotFound"}
           -> Unhandled("ResponseValidationError")
      [] OTHER -> Unhandled(result.kind)

\* C19: an update request on an order whose stored status is CONFIRMED is
\* answered with HTTP 400 and detail order_is_confirmed, and one on a missing
\* order with HTTP 404 and detail record_not_found.
C19_UpdateErrorResponses ==
    \A p \in Procs :
       (proc[p].op = "update" /\ proc[p].pc = "done")
          => /\ proc[p].result.kind = "OrderIsConfirmed"
                  => update_order(proc[p].result)
                       = HTTPException(HTTP_400_BAD_REQUEST, ORDER_IS_CONFIRMED)
             /\ proc[p].result.kind = "RecordNotFound"
                  => update_order(proc[p].result)
                       = HTTPException(HTTP_404_NOT_FOUND, RECORD_NOT_FOUND)

\* C20: the row UserService.create stores has is_verified true when the
\* request set is_verified to true, and false otherwise.
C20_UnverifiedByDefault ==
    [][(UserCreateCommit /\ session'.outcome.kind = "value")
          => users'[next_user_id].is_verified
               = (session.user_create.is_verified = "true")]_vars

\* C21: no two rows of the users table have emails that are equal when the
\* letter case is ignored, whatever creates and updates have run and however
\* they interleaved.
C21_EmailsUniqueIgnoringCase ==
    \A i, j \in UserRowIds :
       (i # j /\ users[i].present /\ users[j].present)
          => Lower(users[i].email) # Lower(users[j].email)

\* C22: the store write of a user update that changes the email writes
\* is_verified = false together with the new email, and the store write of
\* an update that does not change the email leaves is_verified as it is.
C22_EmailChangeResetsVerified ==
    [][(UserUpdateCommit /\ session'.outcome.kind = "value")
          => LET user_id == session.user.id
                 email == session.user_update.email IN
             IF email # "unset" /\ email # session.user.email
             THEN /\ users'[user_id].email = email
                  /\ ~users'[user_id].is_verified
             ELSE /\ users'[user_id].email = users[user_id].email
                  /\ users'[user_id].is_verified
                       = users[user_id].is_verified]_vars

C22_Witness ==
    /\ session.op = "update" /\ session.pc = "done"
    /\ session.outcome.kind = "value"
    /\ session.user.is_verified /\ session.user.email = "a@x.io"
    /\ session.user_update.email = "b@x.io"
    /\ session.user_update.is_verified = "true"
    /\ users[5].email = "b@x.io" /\ ~users[5].is_verified

\* the class c occurs in the password
Contains(password, c) == \E i \in 1..Len(password) : password[i] = c

\* C23: validate_password accepts a password exactly when it has at least 12
\* characters, a lowercase letter, an uppercase letter, a digit and a symbol
\* of the set, and no whitespace character at any position, a newline at
\* the end included.
C23_ValidatePassword ==
    (session.op = "validate_password" /\ session.pc = "done")
       => (session.outcome.kind = "value")
            = (/\ Len(session.password) >= PASSWORD_MIN_LENGTH
               /\ Contains(session.password, "l")
               /\ Contains(session.password, "U")
               /\ Contains(session.password, "d")
               /\ Contains(session.password, "s")
               /\ \A i \in 1..Len(session.password) :
                     ~Whitespace(session.password[i]))

\* C24: a row of the store whose deleted_at is set keeps a set deleted_at for
\* as long as it exists; a softDelete takes a timestamp not earlier than the
\* deleted_at the row has when it is called, and its store write sets
\* deleted_at to that timestamp.
C24_DeletedAtStays ==
    [][/\ \A i \in OrderIds :
            (store[i].present /\ store[i].deleted_at # NoTime
             /\ store'[i].present)
               => store'[i].deleted_at # NoTime
       /\ \A p \in Procs :
            /\ SoftDeleteCall(p)
                 => proc'[p].ts >= store[proc'[p].order_id].deleted_at
            /\ (SoftDeleteStore(p) /\ store[proc[p].order_id].present)
                 => store'[proc[p].order_id].deleted_at = proc[p].ts]_vars

C24_Witness ==
    \E i \in OrderIds :
       /\ store[i].present
       /\ \E h \in hist[i] :
             h.deleted_at # NoTime /\ store[i].deleted_at > h.deleted_at
       /\ \E p \in Procs :
             /\ proc[p].op = "update" /\ proc[p].pc = "done"
             /\ proc[p].committed /\ proc[p].order_id = i

\* C25: a softDelete of an id the store has never held a row for leaves the
\* store as it is at its store step and returns normally, raising neither
\* NotFound nor anything else.
C25_SoftDeleteOfMissing ==
    [][\A p \in Procs :
         /\ (SoftDeleteStore(p) /\ hist[proc[p].order_id] = {})
              => store' = store
         /\ (SoftDeleteCacheDelete(p) /\ hist[proc[p].order_id] = {})
              => /\ store' = store
                 /\ proc'[p].result = Returned(NoSchema)]_vars

\* C26: getFiltered(userId, filter) returns the orders of the store that
\* belong to userId, have no deleted_at and meet each condition the filter
\* gives (status equal, total_price not below min_price, not above
\* max_price), and nothing else; it leaves the cache and the store as they
\* are, and its result does not depend on what the cache holds.
C26_GetFiltered ==
    [][\A p \in Procs :
         GetFiltered(p)
            => LET f == proc'[p].order_filter
                   wanted(row) ==
                      /\ row.present /\ row.user_id = proc'[p].user_id
                      /\ row.deleted_at = NoTime
                      /\ \A s \in OrderStatus :
                            f.status = <<s>> => row.status = s
                      /\ \A m \in Prices :
                            /\ f.min_price = <<m>> => row.total_price >= m
                            /\ f.max_price = <<m>> => row.total_price <= m IN
               /\ cache' = cache /\ store' = store
               /\ proc'[p].result.kind = "ok"
               /\ \A i \in FilterOrderIds :
                     wanted(store[i])
                        <=> OrderSchemaOf(ModelOf(i, store[i]))
                               \in proc'[p].result.value
               /\ \A schema \in proc'[p].result.value :
                     \E i \in FilterOrderIds :
                        schema = OrderSchemaOf(ModelOf(i, store[i]))]_vars

C26_Witness ==
    \E p \in Procs :
       /\ proc[p].pc = "done" /\ proc[p].op = "get_filtered"
       /\ proc[p].user_id = 5
       /\ proc[p].order_filter
            = [status |-> <<"PENDING">>, min_price |-> <<20>>,
               max_price |-> <<20>>]
       /\ store[1] = NewRow(5, 20, {1})
       /\ store[2] = [NewRow(5, 20, {1}) EXCEPT !.deleted_at = 1]
       /\ proc[p].result.value = {OrderSchemaOf(ModelOf(1, store[1]))}
       /\ \E k \in CacheKeys : cache[k] # <<>>

\* C27: the commit of create(userId, data) adds a row under a new id with
\* user_id = userId, status PENDING, no deleted_at and the supplied products
\* as its line items; a create that returns has, in its last step, written
\* the order it returns to the cache under order:<new id>, and that order is
\* the committed row as long as no update of the row has been committed.
C27_CreateStoresAndCaches ==
    [][\A p \in Procs :
         /\ CreateCommit(p)
              => LET i == proc'[p].order_id IN
                 /\ ~store[i].present /\ store'[i].present
                 /\ store'[i].user_id = proc'[p].user_id
                 /\ store'[i].status = "PENDING"
                 /\ store'[i].deleted_at = NoTime
                 /\ store'[i].total_price = proc'[p].data.total_price
                 /\ store'[i].lines = proc'[p].data.order_products
                 /\ \A j \in OrderIds \ {i} : store'[j] = store[j]
         /\ (CreateCacheSet(p) /\ proc'[p].result.kind = "ok")
              => LET i == proc[p].order_id
                     order_schema == proc'[p].result.value IN
                 /\ order_schema.id = i
                 /\ order_schema.user_id = proc[p].user_id
                 /\ cache'[generate_key(CACHE_PREFIX, i)]
                      = <<JsonDumps(order_schema)>>
                 /\ Cardinality(hist[i]) = 1
                      => \A row \in hist[i] :
                            order_schema = OrderSchemaOf(ModelOf(i, row))]_vars

C27_Witness ==
    \E p \in Procs, i \in OrderIds :
       /\ proc[p].op = "create" /\ proc[p].pc = "done"
       /\ proc[p].order_id = i /\ proc[p].result.kind = "ok"
       /\ proc[p].result.value.status = "PENDING"
       /\ proc[p].result.value.order_products = {1}
       /\ store[i].present /\ store[i].lines = {1}
       /\ cache[generate_key(CACHE_PREFIX, i)]
            = <<JsonDumps(proc[p].result.value)>>

\* C28: when a get_by_id, create or update ends by writing the cache and
\* leaves no request in flight, the requests in the two slots being
\* get_by_id, create or update calls that returned normally, the cache entry
\* of the order equals the store's current row of it.
C28_CacheEqualsStoreAtRest ==
    [][\A p \in Procs :
         LET i == proc[p].order_id IN
         (/\ GetByIdCacheSet(p) \/ CreateCacheSet(p) \/ UpdateCacheSet(p)
          /\ \A q \in Procs :
                /\ proc'[q].pc \in {"idle", "done"}
                /\ proc'[q].op \in {"none", "get_by_id", "create", "update"}
                /\ proc'[q].result.kind \in {"none", "ok"}
          /\ store[i].present /\ store[i].deleted_at = NoTime
          /\ cache'[OrderKey(i)] # <<>>)
            => JsonLoads(cache'[OrderKey(i)][1])
                 = OrderSchemaOf(ModelOf(i, store[i]))]_vars

\* C29: a get_by_id or update that holds the live row it read from the
\* store, and takes its last step when a soft_delete or hard_delete of the
\* same id that ran meanwhile has ended and the row is deleted, leaves the
\* cache with no entry for the id.
C29_NoEntryAfterDelete ==
    [][\A p \in Procs, q \in Procs :
         LET i == proc[p].order_id IN
         (/\ GetByIdCacheSet(p) \/ UpdateCacheSet(p)
          /\ q # p
          /\ proc[p].order_model.present
          /\ proc[p].order_model.deleted_at = NoTime
          /\ proc[q].op \in {"soft_delete", "hard_delete"}
          /\ proc[q].order_id = i
          /\ proc[q].pc = "done" /\ proc[q].committed
          /\ proc[q].result.kind # "Cancelled"
          /\ ~store[i].present \/ store[i].deleted_at # NoTime)
            => cache'[OrderKey(i)] = <<>>]_vars

\* C30: an update that publishes an event was given a status field, and the
\* event's new_status is the status it was given and wrote; the commit of an
\* update that changes the stored status changes it from the status the
\* update loaded, which is the old_status of the event it publishes.
C30_EventIsOwnChange ==
    [][\A p \in Procs :
         /\ (UpdateEmit(p) /\ events' # events)
              => /\ proc[p].data.has_status
                 /\ events'[Len(events')].new_status
                      = OrderStatusValue(proc[p].data.status)
         /\ (UpdateCommit(p)
               /\ store'[proc[p].order_id].status
                    # store[proc[p].order_id].status)
              => store[proc[p].order_id].status = proc[p].original_status]_vars

\* C31: a request through the token gate whose token read_token accepts at
\* the time of the request, and whose embedded snapshot passes the gate's
\* parameters, is let through with the snapshot and the token whatever the
\* users table holds for the account: no row, an inactive row, an unverified
\* row or a row without the required roles.
C31_TokenGateIgnoresStore ==
    [][CurrentJwtUser =>
         LET token == session'.token
             r == read_token(config, token, clock) IN
         (/\ token.present /\ r.raised = "none" /\ r.user.present
          /\ session'.is_active => r.user.is_active
          /\ session'.is_verified => r.user.is_verified
          /\ RequiredRoleSet(session'.required_roles) \subseteq r.user.roles)
            => session'.outcome = Yields(r.user, token)]_vars

C31_Witness ==
    /\ session.op = "current_jwt_user" /\ session.pc = "done"
    /\ session.is_active /\ session.is_verified
    /\ session.required_roles = RequiredRoles(<<"admin">>)
    /\ session.outcome.kind = "value"
    /\ session.outcome.user.id = 5
    /\ users[5].present
    /\ ~users[5].is_active /\ ~users[5].is_verified /\ users[5].roles = {}

C33_TokenOnlyForVerifiedLogin ==
    [][/\ ((LoginAuthenticate \/ LoginRehash)
             /\ session'.pc = "done" /\ session'.requires_verification
             /\ session'.outcome.token.present)
            => LET i == session'.user.id IN
               /\ session'.user.present /\ users'[i].present
               /\ users'[i].hashed_password.password = session'.password
               /\ users'[i].is_active /\ users'[i].is_verified
               /\ session'.outcome
                    = Response(HTTP_200_OK,
                               write_token(config,
                                           UserSchemaOf(UserModelOf(i, users'[i])),
                                           clock))
       /\ LoginAuthenticate => users' = users
       /\ (LoginRehash /\ users' # users)
            => LET i == session.user.id IN
               /\ users[i].hashed_password.password = session.password
               /\ users' = [users EXCEPT ![i].hashed_password =
                                           PasswordHelper_hash(session.password)]]_vars

C33_Witness ==
    /\ session.op = "login" /\ session.pc = "done"
    /\ session.requires_verification
    /\ session.outcome.kind = "response" /\ session.outcome.token.present
    /\ session.updated_password_hash # <<>>
    /\ users[5].hashed_password = PasswordHelper_hash(StrongPassword)
    /\ users[5].is_active /\ users[5].is_verified

\* C34: an update called on an id whose row is absent or soft-deleted in the
\* store ends in its first step with RecordNotFound, whether or not the cache
\* holds an entry for the id, and leaves the store, the cache and the
\* published events as they were.
C34_UpdateOfMissingRow ==
    [][\A p \in Procs :
         (UpdateFetch(p) /\ ~Live(store[proc'[p].order_id]))
            => /\ proc'[p].pc = "done"
               /\ proc'[p].result = Raised("RecordNotFound")
               /\ store' = store /\ cache' = cache /\ events' = events]_vars

C34_Witness ==
    \E p \in Procs :
       /\ proc[p].op = "update" /\ proc[p].pc = "done"
       /\ proc[p].result = Raised("RecordNotFound")
       /\ store[proc[p].order_id].present
       /\ store[proc[p].order_id].deleted_at # NoTime
       /\ cache[OrderKey(proc[p].order_id)] # <<>>
       /\ \A q \in Procs : proc[q].pc \in {"idle", "done"}

OwnerIds == {5, 6}                \* users that own orders

\* what an update that runs with no other request in between does: the
\* load, the check, the commit, the refresh, the event (sent, or
\* kafka_manager.send raises) and the cache write
update_alone(c, st, ev, order_id, data, sent) ==
    LET order_model == OrderRepository_get_by_id(st, order_id)
        r == OrderRepository_update(st[order_id], order_model, data)
        st2 == [st EXCEPT ![order_id] = r.row]
        refreshed == SessionRefresh(st2, order_id)
        changed == order_model.status # refreshed.status
        s == update_cache_and_serialize(c, refreshed)
        same == [result |-> NoResult, store |-> st, cache |-> c,
                 events |-> ev] IN
    IF ~order_model.present
    THEN [same EXCEPT !.result = Raised("RecordNotFound")]
    ELSE IF IsConfirmed(order_model)
    THEN [same EXCEPT !.result = Raised("OrderIsConfirmed")]
    ELSE IF r.raised THEN [same EXCEPT !.result = Raised("DBError")]
    ELSE IF changed /\ ~sent
    THEN [result |-> Raised("KafkaError"), store |-> st2, cache |-> c,
          events |-> ev]
    ELSE [result |-> IF s.raised THEN Raised("TypeError")
                     ELSE Returned(s.schema),
          store |-> st2, cache |-> s.cache,
          events |-> IF changed
                     THEN Append(ev, StatusUpdateEvent(order_id,
                                                       order_model.status,
                                                       refreshed.status))
                     ELSE ev]

\* route get_order on the result of get_order_or_404
get_order(result) ==
    CASE result.kind = "ok" -> Response(HTTP_200_OK, NoToken)
      [] result.kind = "RecordNotFound"
           -> HTTPException(HTTP_404_NOT_FOUND, "Not Found")
      [] OTHER -> Unhandled(result.kind)

\* GET /orders/{order_id}: the dependency get_current_jwt_user, then
\* get_order_or_404, which calls order_service.get_by_id(order_id)
RouteGetOrder ==
    /\ SessionFree
    /\ \E token \in GateTokens(config, clock), order_id \in OrderIds :
         LET gate == current_jwt_user(config, token, clock, TRUE, TRUE,
                                      NoRequiredRoles)
             result == get_by_id_alone(cache, store, order_id)
             order_model == OrderRepository_get_by_id(store, order_id) IN
         IF gate.kind # "value"
         THEN /\ session' = [op |-> "get_order", pc |-> "done",
                             token |-> token, order_id |-> order_id,
                             gate |-> gate, result |-> NoResult,
                             outcome |-> gate]
              /\ UNCHANGED cache
         ELSE /\ session' = [op |-> "get_order", pc |-> "done",
                             token |-> token, order_id |-> order_id,
                             gate |-> gate, result |-> result,
                             outcome |-> get_order(result)]
              /\ cache' = IF CacheRepository_get(cache, CACHE_PREFIX,
                                                 order_id) = <<>>
                             /\ order_model.present
                          THEN update_cache_and_serialize(cache,
                                                          order_model).cache
                          ELSE cache
    /\ UNCHANGED <<store, next_id, events, nreq, proc, hist, deleted>>
    /\ UNCHANGED <<config, users, next_user_id, clock>>

\* PUT /orders/{order_id}: the dependency get_current_jwt_user, then
\* order_service.update(order_id, order_update)
RouteUpdateOrder ==
    /\ SessionFree
    /\ \E token \in GateTokens(config, clock), order_id \in OrderIds,
          order_update \in UpdateInputs, sent \in BOOLEAN :
         LET gate == current_jwt_user(config, token, clock, TRUE, TRUE,
                                      NoRequiredRoles)
             u == update_alone(cache, store, events, order_id, order_update,
                               sent) IN
         IF gate.kind # "value"
         THEN /\ session' = [op |-> "update_order", pc |-> "done",
                             token |-> token, order_id |-> order_id,
                             gate |-> gate, result |-> NoResult,
                             outcome |-> gate]
              /\ UNCHANGED <<store, cache, events>>
         ELSE /\ session' = [op |-> "update_order", pc |-> "done",
                             token |-> token, order_id |-> order_id,
                             gate |-> gate, result |-> u.result,
                             outcome |-> update_order(u.result)]
              /\ store' = u.store
              /\ cache' = u.cache
              /\ events' = u.events
    /\ UNCHANGED <<next_id, nreq, proc, hist, deleted>>
    /\ UNCHANGED <<config, users, next_user_id, clock>>

\* the orders the routes are called on: none, or order 1 of either owner in
\* every status, live or soft-deleted, cached or not
RouteRows ==
    {NoRow}
    \cup {[present |-> TRUE, user_id |-> u, status |-> s, total_price |-> 10,
           deleted_at |-> d, lines |-> {1}] :
            u \in OwnerIds, s \in OrderStatus, d \in {NoTime, 1}}

RouteInit ==
    /\ store \in [OrderIds -> RouteRows]
    /\ next_id = 2
    /\ cache \in {[k \in CacheKeys |-> <<>>],
                  [k \in CacheKeys |->
                     IF \E i \in OrderIds : k = OrderKey(i) /\ Live(store[i])
                     THEN LET i == CHOOSE i \in OrderIds : k = OrderKey(i) IN
                          <<JsonDumps(OrderSchemaOf(ModelOf(i, store[i])))>>
                     ELSE <<>>]}
    /\ events = <<>>
    /\ clock = 2
    /\ nreq = 0
    /\ proc = [p \in Procs |-> IdleProc]
    /\ hist = [i \in OrderIds |-> {}]
    /\ deleted = {}
    /\ config = DefaultConfig
    /\ users = NoUsers
    /\ next_user_id = 5
    /\ session = IdleSession

RouteNext ==
    \/ RouteGetOrder
    \/ RouteUpdateOrder

RouteSpec == RouteInit /\ [][RouteNext]_vars

\* ---------------------------------------------------------------------
\* the application's lifespan (main.py)
\* ---------------------------------------------------------------------

\* the three managers of core.infrastructure as the import of main leaves
\* them: the constructors build the engine and the connection pool, the
\* producer is None until start()
ManagersAtImport ==
    [postgres_manager |-> "engine", redis_manager |-> "pool",
     kafka_manager |-> "none"]

\* KafkaManager.start: the producer is assigned, then started; a start that
\* raises leaves the assigned producer behind
KafkaManager_start(m, started) ==
    [m EXCEPT !.kafka_manager = IF started THEN "started" ELSE "created"]

\* KafkaManager.stop: stops the producer when there is one
KafkaManager_stop(m) ==
    IF m.kafka_manager # "none"
    THEN [m EXCEPT !.kafka_manager = "stopped"]
    ELSE m

\* RedisManager.close: connection_pool.aclose()
RedisManager_close(m) == [m EXCEPT !.redis_manager = "closed"]

\* PostgresManager.dispose: engine.dispose(close)
PostgresManager_dispose(m) == [m EXCEPT !.postgres_manager = "disposed"]

\* lifespan up to its yield: await kafka_manager.start(); when the broker
\* cannot be reached the exception leaves lifespan and the application does
\* not start
LifespanStartup ==
    /\ session.op = "lifespan"
    /\ session.pc = "startup"
    /\ \E started \in BOOLEAN :
         session' = [session EXCEPT
                       !.pc = IF started THEN "serving" ELSE "done",
                       !.managers = KafkaManager_start(@, started),
                       !.outcome = IF started THEN NoOutcome
                                   ELSE Raises("KafkaConnectionError")]
    /\ UNCHANGED <<config, users, next_user_id, orders, clock>>

\* a first call of the shutdown that stops the producer
LifespanDispose_broker_first ==
    /\ session.op = "lifespan"
    /\ session.pc = "serving"
    /\ session' = [session EXCEPT !.pc = "disposed",
                                  !.managers = KafkaManager_stop(@)]
    /\ UNCHANGED <<config, users, next_user_id, orders, clock>>

\* lifespan resumed after its yield: await postgres_manager.dispose()
LifespanDispose ==
    /\ session.op = "lifespan"
    /\ session.pc = "serving"
    /\ session' = [session EXCEPT !.pc = "disposed",
                                  !.managers = PostgresManager_dispose(@)]
    /\ UNCHANGED <<config, users, next_user_id, orders, clock>>

\* await redis_manager.close()
LifespanClose ==
    /\ session.op = "lifespan"
    /\ session.pc = "disposed"
    /\ session' = [session EXCEPT !.pc = "closed",
                                  !.managers = RedisManager_close(@)]
    /\ UNCHANGED <<config, users, next_user_id, orders, clock>>

\* await kafka_manager.stop(), the last statement of lifespan
LifespanStop ==
    /\ session.op = "lifespan"
    /\ session.pc = "closed"
    /\ session' = [session EXCEPT !.pc = "done",
                                  !.managers = KafkaManager_stop(@)]
    /\ UNCHANGED <<config, users, next_user_id, orders, clock>>

\* the application is started over whatever the store and the cache hold
LifespanInit ==
    /\ store \in [OrderIds -> RouteRows]
    /\ next_id = 2
    /\ cache \in {[k \in CacheKeys |-> <<>>],
                  [k \in CacheKeys |->
                     IF \E i \in OrderIds : k = OrderKey(i) /\ Live(store[i])
                     THEN LET i == CHOOSE i \in OrderIds : k = OrderKey(i) IN
                          <<JsonDumps(OrderSchemaOf(ModelOf(i, store[i])))>>
                     ELSE <<>>]}
    /\ events = <<>>
    /\ clock = 1
    /\ nreq = 0
    /\ proc = [p \in Procs |-> IdleProc]
    /\ hist = [i \in OrderIds |-> {}]
    /\ deleted = {}
    /\ config = DefaultConfig
    /\ users = NoUsers
    /\ next_user_id = 5
    /\ session = [op |-> "lifespan", pc |-> "startup",
                  managers |-> ManagersAtImport, outcome |-> NoOutcome]

LifespanNext ==
    \/ LifespanStartup
    \/ LifespanDispose
    \/ LifespanClose
    \/ LifespanStop
    \/ Tick

LifespanSpec == LifespanInit /\ [][LifespanNext]_vars

\* C36: a get_order or update_order request whose token is accepted and
\* carries an active, verified user without the admin role, for an order in
\* the store whose user_id is another user's, is not answered with the order
\* and leaves the order's row as it was.
C36_OwnerOnly ==
    [][(/\ RouteGetOrder \/ RouteUpdateOrder
        /\ session'.gate.kind = "value"
        /\ "admin" \notin session'.gate.user.roles
        /\ store[session'.order_id].present
        /\ store[session'.order_id].user_id # session'.gate.user.id)
          => /\ session'.result.kind # "ok"
             /\ session'.outcome.kind # "response"
             /\ store' = store]_vars

\* C37: a request to request-verify-token or forgot-password is answered
\* with 202 and no body, whatever the email and however the service call of
\* the flow ends.
C37_AlwaysAccepted ==
    (session.op \in {"request_verify_token", "forgot_password"}
     /\ session.pc = "done")
       => session.outcome = Response(HTTP_202_ACCEPTED, NoToken)

\* C38: on shutdown the producer of the event broker is stopped first, then
\* the connection pool of the cache is closed, then the connection pool of
\* the store is disposed: the cache pool is never closed while the producer
\* runs, and the engine is never disposed while the cache pool is open.
C38_BrokerThenCacheThenStore ==
    session.op = "lifespan"
       => /\ session.managers.redis_manager = "closed"
               => session.managers.kafka_manager = "stopped"
          /\ session.managers.postgres_manager = "disposed"
               => session.managers.redis_manager = "closed"

\* C38, as the code has it: on shutdown the engine of the store is disposed
\* first, then the connection pool of the cache is closed, then the producer
\* is stopped; a lifespan that ends without an exception after a successful
\* startup has torn down all three.
C38_StoreThenCacheThenBroker ==
    session.op = "lifespan"
       => /\ session.managers.redis_manager = "closed"
               => session.managers.postgres_manager = "disposed"
          /\ session.managers.kafka_manager = "stopped"
               => session.managers.redis_manager = "closed"
          /\ (session.pc = "done" /\ session.outcome = NoOutcome)
               => session.managers =
                    [postgres_manager |-> "disposed",
                     redis_manager |-> "closed",
                     kafka_manager |-> "stopped"]

C38_Witness ==
    /\ session.op = "lifespan"
    /\ session.pc = "done"
    /\ session.managers.postgres_manager = "disposed"
    /\ session.managers.redis_manager = "closed"
    /\ session.managers.kafka_manager = "stopped"

====
